---- MODULE Spec2Model ----
(***************************************************************************)
(* Location-reference codec of the temporary-road-closures backend         *)
(* (backend/app/services/openlr_service.py, class OpenLRService).          *)
(*                                                                         *)
(* Numbers.  A coordinate is a fixed-point number counted in sub-units,    *)
(* SubSteps of them per micro-degree, so that the fractional part the      *)
(* scaling step cuts away is visible.  Arithmetic on them is exact.        *)
(* Texts.  A reference is a record [chars, doc]: chars is the sequence of  *)
(* its characters (one-character strings); for a text that begins with "<" *)
(* chars holds the leading characters and doc what the XML parser makes of *)
(* the document.                                                           *)
(***************************************************************************)
EXTENDS Integers, Sequences, FiniteSets, TLC

VARIABLES enabled, format, geometry, encoded, openlr_code, decoded, validated

\* settings is the configuration the environment supplies, report what the
\* last accuracy call returned; db, runs and outcome belong to ClosureService
VARIABLES settings, report, db, runs, outcome

\* way is the last call that asked the map service for a way
VARIABLES way

codecVars == <<enabled, format, geometry, encoded, openlr_code, decoded, validated>>

vars == <<enabled, format, geometry, encoded, openlr_code, decoded, validated,
          settings, report, db, runs, outcome, way>>

----------------------------------------------------------------------------
(* Bounds of the model *)

\* sub-units per micro-degree (resolution of the input coordinates)
SubSteps == 4

\* longest LineString enumerated point by point
MaxShortLen == 2

\* most closures the store holds
MaxClosures == 2

----------------------------------------------------------------------------
(* Constants of the program *)

\* data.append(0x42)
MARKER == 66

\* largest value bytearray.append accepts
MaxByte == 255

\* (lon + 180) * 1000000
SCALE == 1000000

\* sub-units per degree
Deg == SCALE * SubSteps

LON_OFFSET == 180

LAT_OFFSET == 90

BASE64 == "base64"

BINARY == "binary"

XML == "xml"

OpenLRFormat == {BINARY, BASE64, XML}

----------------------------------------------------------------------------
(* Helpers *)

Min(S) == CHOOSE x \in S : \A y \in S : x <= y

\* Python int(): truncation toward zero of num/den, den > 0
IntTrunc(num, den) == IF num >= 0 THEN num \div den ELSE -((-num) \div den)

Abs(x) == IF x >= 0 THEN x ELSE -x

----------------------------------------------------------------------------
(* Texts *)

NoDoc == [wf |-> FALSE, points |-> <<>>]

Txt(cs) == [chars |-> cs, doc |-> NoDoc]

EmptyText == Txt(<<>>)

B64Alphabet ==
  << "A","B","C","D","E","F","G","H","I","J","K","L","M","N","O","P",
     "Q","R","S","T","U","V","W","X","Y","Z","a","b","c","d","e","f",
     "g","h","i","j","k","l","m","n","o","p","q","r","s","t","u","v",
     "w","x","y","z","0","1","2","3","4","5","6","7","8","9","+","/" >>

B64Chars == {B64Alphabet[i] : i \in 1..64}

B64Val == [c \in B64Chars |-> (CHOOSE i \in 1..64 : B64Alphabet[i] = c) - 1]

HexDigits ==
  << "0","1","2","3","4","5","6","7","8","9","a","b","c","d","e","f" >>

HexVal ==
  [c \in {HexDigits[i] : i \in 1..16} \cup {"A","B","C","D","E","F"} |->
     IF c = "A" THEN 10 ELSE IF c = "B" THEN 11 ELSE IF c = "C" THEN 12
     ELSE IF c = "D" THEN 13 ELSE IF c = "E" THEN 14 ELSE IF c = "F" THEN 15
     ELSE (CHOOSE i \in 1..16 : HexDigits[i] = c) - 1]

HexChars == DOMAIN HexVal

\* base64.b64encode(data).decode("ascii")
b64encode(data) ==
  LET n == Len(data)
      B(k) == IF k <= n THEN data[k] ELSE 0
  IN [i \in 1..(4 * ((n + 2) \div 3)) |->
        LET q == (i - 1) \div 4
            r == (i - 1) % 4
            b1 == B(3 * q + 1)
            b2 == B(3 * q + 2)
            b3 == B(3 * q + 3)
        IN IF r = 0 THEN B64Alphabet[(b1 \div 4) + 1]
           ELSE IF r = 1 THEN B64Alphabet[((b1 % 4) * 16 + (b2 \div 16)) + 1]
           ELSE IF r = 2 THEN (IF 3 * q + 2 > n THEN "="
                               ELSE B64Alphabet[((b2 % 16) * 4 + (b3 \div 64)) + 1])
           ELSE (IF 3 * q + 3 > n THEN "=" ELSE B64Alphabet[(b3 % 64) + 1])]

\* number of characters before the first "="
B64DataLen(cs) ==
  LET pads == {i \in 1..Len(cs) : cs[i] = "="}
  IN IF pads = {} THEN Len(cs) ELSE Min(pads) - 1

\* base64.b64decode(s, validate=True) accepts s  (strict mode)
is_base64(cs) ==
  LET n == Len(cs)
      d == B64DataLen(cs)
      p == n - d
  IN /\ \A i \in 1..d : cs[i] \in B64Chars
     /\ \A i \in (d + 1)..n : cs[i] = "="
     /\ \/ d % 4 = 0 /\ ~(d = 0 /\ p > 0)
        \/ d % 4 = 2 /\ p = 2
        \/ d % 4 = 3 /\ p = 1

\* base64.b64decode(s) of an accepted s
b64decode(cs) ==
  LET d == B64DataLen(cs)
      V(k) == B64Val[cs[k]]
  IN [j \in 1..((d * 3) \div 4) |->
        LET q == (j - 1) \div 3
            r == (j - 1) % 3
        IN IF r = 0 THEN V(4 * q + 1) * 4 + (V(4 * q + 2) \div 16)
           ELSE IF r = 1 THEN (V(4 * q + 2) % 16) * 16 + (V(4 * q + 3) \div 4)
           ELSE (V(4 * q + 3) % 4) * 64 + V(4 * q + 4)]

\* bytes.hex()
hex(data) ==
  [i \in 1..(2 * Len(data)) |->
     LET b == data[(i + 1) \div 2]
     IN IF i % 2 = 1 THEN HexDigits[(b \div 16) + 1] ELSE HexDigits[(b % 16) + 1]]

\* the characters of cs that are not white space
HexStrip(cs) == SelectSeq(cs, LAMBDA c : c # " ")

\* bytes.fromhex(s) accepts s: pairs of hex digits, white space between pairs
is_hex(cs) ==
  LET ds == HexStrip(cs)
  IN /\ \A i \in 1..Len(ds) : ds[i] \in HexChars
     /\ Len(ds) % 2 = 0
     /\ \A i \in 1..Len(cs) :
          cs[i] = " " =>
            Cardinality({k \in 1..(i - 1) : cs[k] # " "}) % 2 = 0

\* bytes.fromhex(s) of an accepted s
fromhex(cs) ==
  LET ds == HexStrip(cs)
  IN [j \in 1..(Len(ds) \div 2) |->
        HexVal[ds[2 * j - 1]] * 16 + HexVal[ds[2 * j]]]

----------------------------------------------------------------------------
(* Geometry validation and binary packing *)

GeospatialException == "GeospatialException"

OpenLRException == "OpenLRException"

\* a GeoJSON geometry; isdict is FALSE for a value that is not a dictionary
Geom(t, cs) == [isdict |-> TRUE, type |-> t, coordinates |-> cs]

NotADict == [isdict |-> FALSE, type |-> "", coordinates |-> <<>>]

LonInRange(lon) == -(LON_OFFSET * Deg) <= lon /\ lon <= LON_OFFSET * Deg

LatInRange(lat) == -(LAT_OFFSET * Deg) <= lat /\ lat <= LAT_OFFSET * Deg

\* the checks of the loop body of _validate_geometry on one coordinate:
\* "" when it passes, else the message of the exception
CoordFault(coord) ==
  IF Len(coord) # 2 THEN "Each coordinate must be [longitude, latitude]"
  ELSE IF ~LonInRange(coord[1]) \/ ~LatInRange(coord[2]) THEN "Invalid coordinates"
  ELSE ""


\* validate_geometry without the range check of the coordinates
validate_geometry_norange(g) ==
  IF ~g.isdict THEN "Geometry must be a dictionary"
  ELSE IF g.type # "LineString" THEN "Only LineString geometries are supported"
  ELSE IF Len(g.coordinates) < 2 THEN "LineString must have at least 2 coordinates"
  ELSE IF \E i \in 1..Len(g.coordinates) : Len(g.coordinates[i]) # 2
       THEN "Each coordinate must be [longitude, latitude]"
       ELSE ""

\* validate_geometry without the check of the geometry type
validate_geometry_anytype(g) ==
  IF ~g.isdict THEN "Geometry must be a dictionary"
  ELSE IF Len(g.coordinates) < 2 THEN "LineString must have at least 2 coordinates"
  ELSE LET bad == {i \in 1..Len(g.coordinates) : CoordFault(g.coordinates[i]) # ""}
       IN IF bad = {} THEN "" ELSE CoordFault(g.coordinates[Min(bad)])

\* _validate_geometry: "" when the geometry passes, else the message of the
\* GeospatialException it raises (the first check that fails)
validate_geometry(g) ==
  IF ~g.isdict THEN "Geometry must be a dictionary"
  ELSE IF g.type # "LineString" THEN "Only LineString geometries are supported"
  ELSE IF Len(g.coordinates) < 2 THEN "LineString must have at least 2 coordinates"
  ELSE LET bad == {i \in 1..Len(g.coordinates) : CoordFault(g.coordinates[i]) # ""}
       IN IF bad = {} THEN "" ELSE CoordFault(g.coordinates[Min(bad)])


\* lon_scaled with the scaling done by COORDINATE_FACTOR (100000)
lon_scaled_factor(lon) == IntTrunc(lon + LON_OFFSET * Deg, SubSteps * 10)

\* int((lon + 180) * 1000000), before the reduction mod 2^32
lon_scaled(lon) == IntTrunc(lon + LON_OFFSET * Deg, SubSteps)

\* int((lat + 90) * 1000000), before the reduction mod 2^32
lat_scaled(lat) == IntTrunc(lat + LAT_OFFSET * Deg, SubSteps)

\* struct.pack with the value reduced to sixteen bits (v & 0xFFFF)
Pack32_short(v) == << 0, 0, (v \div 256) % 256, v % 256 >>

\* struct.pack(">I", v % (1 << 32)): the four bytes, most significant first,
\* of v reduced mod 2^32 (\div rounds down and % is non-negative, so the
\* bytes are those of the two's complement of a negative v)
Pack32(v) ==
  << (v \div 16777216) % 256, (v \div 65536) % 256, (v \div 256) % 256, v % 256 >>

\* struct.unpack(">I", data[offset : offset + 4])[0], offset counted from 0
Unpack32(data, offset) ==
  data[offset + 1] * 16777216 + data[offset + 2] * 65536
    + data[offset + 3] * 256 + data[offset + 4]


\* create_simple_encoding with the latitude packed before the longitude
create_simple_encoding_latfirst(coordinates) ==
  LET n == Len(coordinates)
  IN IF n > MaxByte
     THEN [ok |-> FALSE, data |-> <<MARKER>>]
     ELSE [ok |-> TRUE,
           data |-> [k \in 1..(2 + 8 * n) |->
             IF k = 1 THEN MARKER
             ELSE IF k = 2 THEN n
             ELSE LET i == ((k - 3) \div 8) + 1
                      j == (k - 3) % 8
                  IN IF j < 4
                     THEN Pack32(lat_scaled(coordinates[i][2]))[j + 1]
                     ELSE Pack32(lon_scaled(coordinates[i][1]))[j - 3]]]

\* create_simple_encoding with the count reduced to a byte (len & 0xFF)
create_simple_encoding_wrapcount(coordinates) ==
  LET n == Len(coordinates)
  IN [ok |-> TRUE,
      data |-> [k \in 1..(2 + 8 * n) |->
        IF k = 1 THEN MARKER
        ELSE IF k = 2 THEN n % (MaxByte + 1)
        ELSE LET i == ((k - 3) \div 8) + 1
                 j == (k - 3) % 8
             IN IF j < 4
                THEN Pack32(lon_scaled(coordinates[i][1]))[j + 1]
                ELSE Pack32(lat_scaled(coordinates[i][2]))[j - 3]]]

\* _create_simple_encoding: ok is FALSE when bytearray.append raises
\* ValueError on a count above 255; data is the buffer built so far
create_simple_encoding(coordinates) ==
  LET n == Len(coordinates)
  IN IF n > MaxByte
     THEN [ok |-> FALSE, data |-> <<MARKER>>]
     ELSE [ok |-> TRUE,
           data |-> [k \in 1..(2 + 8 * n) |->
             IF k = 1 THEN MARKER
             ELSE IF k = 2 THEN n
             ELSE LET i == ((k - 3) \div 8) + 1
                      j == (k - 3) % 8
                  IN IF j < 4
                     THEN Pack32(lon_scaled(coordinates[i][1]))[j + 1]
                     ELSE Pack32(lat_scaled(coordinates[i][2]))[j - 3]]]


\* decode_simple_encoding with the loop one block short (range(num_points - 1))
decode_simple_encoding_offbyone(data) ==
  IF Len(data) < 2
  THEN [status |-> "raise", exc |-> OpenLRException,
        msg |-> "Binary data too short", coordinates |-> <<>>]
  ELSE IF data[1] # MARKER
  THEN [status |-> "raise", exc |-> OpenLRException,
        msg |-> "Invalid encoding format", coordinates |-> <<>>]
  ELSE IF Len(data) # 2 + data[2] * 8
  THEN [status |-> "raise", exc |-> OpenLRException,
        msg |-> "Invalid data length", coordinates |-> <<>>]
  ELSE [status |-> "ok", exc |-> "", msg |-> "",
        coordinates |-> [i \in 1..(data[2] - 1) |->
          << (Unpack32(data, 2 + 8 * (i - 1)) - LON_OFFSET * SCALE) * SubSteps,
             (Unpack32(data, 6 + 8 * (i - 1)) - LAT_OFFSET * SCALE) * SubSteps >>]]

\* _decode_simple_encoding with the length tested before the marker
decode_simple_encoding_lengthfirst(data) ==
  IF Len(data) < 2
  THEN [status |-> "raise", exc |-> OpenLRException,
        msg |-> "Binary data too short", coordinates |-> <<>>]
  ELSE IF Len(data) # 2 + data[2] * 8
  THEN [status |-> "raise", exc |-> OpenLRException,
        msg |-> "Invalid data length", coordinates |-> <<>>]
  ELSE IF data[1] # MARKER
  THEN [status |-> "raise", exc |-> OpenLRException,
        msg |-> "Invalid encoding format", coordinates |-> <<>>]
  ELSE [status |-> "ok", exc |-> "", msg |-> "",
        coordinates |-> [i \in 1..data[2] |->
          << (Unpack32(data, 2 + 8 * (i - 1)) - LON_OFFSET * SCALE) * SubSteps,
             (Unpack32(data, 6 + 8 * (i - 1)) - LAT_OFFSET * SCALE) * SubSteps >>]]

\* _decode_simple_encoding; coordinates come back in sub-units
decode_simple_encoding(data) ==
  IF Len(data) < 2
  THEN [status |-> "raise", exc |-> OpenLRException,
        msg |-> "Binary data too short", coordinates |-> <<>>]
  ELSE IF data[1] # MARKER
  THEN [status |-> "raise", exc |-> OpenLRException,
        msg |-> "Invalid encoding format", coordinates |-> <<>>]
  ELSE IF Len(data) # 2 + data[2] * 8
  THEN [status |-> "raise", exc |-> OpenLRException,
        msg |-> "Invalid data length", coordinates |-> <<>>]
  ELSE [status |-> "ok", exc |-> "", msg |-> "",
        coordinates |-> [i \in 1..data[2] |->
          << (Unpack32(data, 2 + 8 * (i - 1)) - LON_OFFSET * SCALE) * SubSteps,
             (Unpack32(data, 6 + 8 * (i - 1)) - LAT_OFFSET * SCALE) * SubSteps >>]]

----------------------------------------------------------------------------
(* XML form *)

\* 10 to the power k
RECURSIVE Pow10(_)
Pow10(k) == IF k = 0 THEN 1 ELSE 10 * Pow10(k - 1)

\* decimal places a coordinate needs beyond the sixth: the least k with
\* 10^k sub-units a whole number of units of 10^-(6+k) degree
FracExp == Min({k \in 0..3 : Pow10(k) % SubSteps = 0})

\* decimal places of a coordinate, and the units of the last place in one
\* sub-unit
FracLen == 6 + FracExp

UnitsPerSub == Pow10(FracExp) \div SubSteps

\* the number of decimal digits of n >= 1
NumDigits(n) == Min({d \in 1..9 : n < Pow10(d)})

\* the len decimal digits of n, leading zeros included
DigitsOf(n, len) == [i \in 1..len |-> (n \div Pow10(len - i)) % 10]

\* ds without its trailing zeros
StripTrailing(ds) ==
  SubSeq(ds, 1, Min({n \in 0..Len(ds) : \A i \in (n + 1)..Len(ds) : ds[i] = 0}))

\* the number the digits ds write
RECURSIVE Value(_)
Value(ds) ==
  IF ds = <<>> THEN 0
  ELSE 10 * Value(SubSeq(ds, 1, Len(ds) - 1)) + ds[Len(ds)]

\* the text of a number: sign, digits before and after the point, and with
\* sci the exponent that follows "e"
NumText(neg, sci, int, frac, exp) ==
  [neg |-> neg, sci |-> sci, int |-> int, frac |-> frac, exp |-> exp]

\* str(x) with six decimal places, as "%.6f" writes it
str_float_fixed6(v) ==
  NumText(v < 0, FALSE,
          DigitsOf(Abs(v) \div Deg, NumDigits((Abs(v) \div Deg) + 1)),
          SubSeq(DigitsOf((Abs(v) % Deg) * UnitsPerSub, FracLen), 1, 6), 0)

\* str(x) of a float, the text an f-string writes for it: the shortest
\* digits that give x back, in exponent notation below 0.0001
str_float(v) ==
  LET ip == Abs(v) \div Deg
      fp == (Abs(v) % Deg) * UnitsPerSub
  IN IF fp = 0
     THEN NumText(v < 0, FALSE, DigitsOf(ip, NumDigits(ip + 1)), <<0>>, 0)
     ELSE IF ip > 0 \/ fp >= Pow10(FracLen - 4)
     THEN NumText(v < 0, FALSE, DigitsOf(ip, NumDigits(ip + 1)),
                  StripTrailing(DigitsOf(fp, FracLen)), 0)
     ELSE NumText(v < 0, TRUE, <<DigitsOf(fp, NumDigits(fp))[1]>>,
                  Tail(StripTrailing(DigitsOf(fp, NumDigits(fp)))),
                  NumDigits(fp) - 1 - FracLen)

\* float(text) of such a text, in sub-units
float(t) ==
  LET fp == IF t.sci
            THEN Value(t.int \o t.frac)
                   * Pow10(FracLen + t.exp - Len(t.frac))
            ELSE Value(t.frac) * Pow10(FracLen - Len(t.frac))
      ip == IF t.sci THEN 0 ELSE Value(t.int)
  IN (IF t.neg THEN -1 ELSE 1) * (ip * Deg + fp \div UnitsPerSub)

\* the text of a Longitude or Latitude element: present is FALSE when the
\* element is missing, numeric is FALSE when float() rejects the text
Field(v) == [present |-> TRUE, numeric |-> TRUE, text |-> str_float(v)]

MissingField ==
  [present |-> FALSE, numeric |-> FALSE, text |-> NumText(FALSE, FALSE, <<>>, <<>>, 0)]

BadField ==
  [present |-> TRUE, numeric |-> FALSE, text |-> NumText(FALSE, FALSE, <<>>, <<>>, 0)]

\* the leading characters of the document _encode_to_xml_simple writes
XmlProlog == << "<", "?", "x", "m", "l" >>

\* _encode_to_xml_simple: one Point element per coordinate, in order
encode_to_xml_simple(coordinates) ==
  [chars |-> XmlProlog,
   doc |-> [wf |-> TRUE,
            points |-> [i \in 1..Len(coordinates) |->
               [id |-> i - 1,
                lon |-> Field(coordinates[i][1]),
                lat |-> Field(coordinates[i][2])]]]]

\* what the loop body of _decode_from_xml_simple raises on one Point element
PointFault(pt) ==
  IF ~pt.lon.present THEN "AttributeError"
  ELSE IF ~pt.lon.numeric THEN "ValueError"
  ELSE IF ~pt.lat.present THEN "AttributeError"
  ELSE IF ~pt.lat.numeric THEN "ValueError"
  ELSE ""

\* _decode_from_xml_simple
decode_from_xml_simple(doc) ==
  IF ~doc.wf
  THEN [status |-> "raise", exc |-> OpenLRException,
        msg |-> "Invalid XML format", coordinates |-> <<>>]
  ELSE LET bad == {i \in 1..Len(doc.points) : PointFault(doc.points[i]) # ""}
       IN IF bad # {}
          THEN [status |-> "raise", exc |-> PointFault(doc.points[Min(bad)]),
                msg |-> "", coordinates |-> <<>>]
          ELSE [status |-> "ok", exc |-> "", msg |-> "",
                coordinates |-> [i \in 1..Len(doc.points) |->
                   << float(doc.points[i].lon.text),
                      float(doc.points[i].lat.text) >>]]

----------------------------------------------------------------------------
(* The public operations of OpenLRService *)

\* encode_geometry.  value is the reference returned; data is the byte
\* buffer as it stands when the call returns or raises
encode_geometry(en, fmt, g) ==
  IF ~en
  THEN [status |-> "none", exc |-> "", msg |-> "", value |-> EmptyText, data |-> <<>>]
  ELSE LET fault == validate_geometry(g)
       IN IF fault # ""
          THEN [status |-> "raise", exc |-> GeospatialException, msg |-> fault,
                value |-> EmptyText, data |-> <<>>]
          ELSE IF Len(g.coordinates) < 2
          THEN [status |-> "raise", exc |-> GeospatialException,
                msg |-> "LineString must have at least 2 coordinates",
                value |-> EmptyText, data |-> <<>>]
          ELSE LET enc == create_simple_encoding(g.coordinates)
               IN IF ~enc.ok
                  THEN [status |-> "raise", exc |-> OpenLRException,
                        msg |-> "Encoding failed: byte must be in range(0, 256)",
                        value |-> EmptyText, data |-> enc.data]
                  ELSE [status |-> "ok", exc |-> "", msg |-> "",
                        value |-> IF fmt = BASE64 THEN Txt(b64encode(enc.data))
                                  ELSE IF fmt = BINARY THEN Txt(hex(enc.data))
                                  ELSE encode_to_xml_simple(g.coordinates),
                        data |-> enc.data]

\* the except clause of decode_openlr: an OpenLRException passes, anything
\* else is wrapped into one
DecodeWrap(r, via) ==
  IF r.status = "raise" /\ r.exc # OpenLRException
  THEN [status |-> "raise", exc |-> OpenLRException, msg |-> "Decoding failed",
        via |-> via, coordinates |-> <<>>]
  ELSE [status |-> r.status, exc |-> r.exc, msg |-> r.msg,
        via |-> via, coordinates |-> r.coordinates]


\* decode_openlr with the hex test before the base64 test
decode_openlr_hexfirst(en, code) ==
  IF ~en \/ code.chars = <<>>
  THEN [status |-> "none", exc |-> "", msg |-> "", via |-> "", coordinates |-> <<>>]
  ELSE IF is_hex(code.chars)
  THEN DecodeWrap(decode_simple_encoding(fromhex(code.chars)), BINARY)
  ELSE IF is_base64(code.chars)
  THEN DecodeWrap(decode_simple_encoding(b64decode(code.chars)), BASE64)
  ELSE IF code.chars[1] = "<"
  THEN DecodeWrap(decode_from_xml_simple(code.doc), XML)
  ELSE [status |-> "raise", exc |-> OpenLRException,
        msg |-> "Unknown OpenLR format", via |-> "", coordinates |-> <<>>]

\* decode_openlr.  via names the decoder the call went through
decode_openlr(en, code) ==
  IF ~en \/ code.chars = <<>>
  THEN [status |-> "none", exc |-> "", msg |-> "", via |-> "", coordinates |-> <<>>]
  ELSE IF is_base64(code.chars)
  THEN DecodeWrap(decode_simple_encoding(b64decode(code.chars)), BASE64)
  ELSE IF is_hex(code.chars)
  THEN DecodeWrap(decode_simple_encoding(fromhex(code.chars)), BINARY)
  ELSE IF code.chars[1] = "<"
  THEN DecodeWrap(decode_from_xml_simple(code.doc), XML)
  ELSE [status |-> "raise", exc |-> OpenLRException,
        msg |-> "Unknown OpenLR format", via |-> "", coordinates |-> <<>>]

\* validate_openlr_code without the try/except around the decode
validate_openlr_code_propagates(en, code) ==
  IF code.chars = <<>>
  THEN [raised |-> FALSE, result |-> FALSE]
  ELSE LET r == decode_openlr(en, code)
       IN IF r.status = "raise"
          THEN [raised |-> TRUE, result |-> FALSE]
          ELSE [raised |-> FALSE, result |-> r.status # "none"]

\* validate_openlr_code: raised is TRUE when an exception leaves the call
validate_openlr_code(en, code) ==
  IF code.chars = <<>>
  THEN [raised |-> FALSE, result |-> FALSE]
  ELSE LET r == decode_openlr(en, code)
       IN IF r.status = "raise"
          THEN [raised |-> FALSE, result |-> FALSE]
          ELSE [raised |-> FALSE, result |-> r.status # "none"]

----------------------------------------------------------------------------
(* Accuracy of a decoded geometry.  Distances are whole centimetres; the   *)
(* haversine formula is evaluated with sin x = x and atan2 taken at small  *)
(* angles, which is what it computes to the centimetre for points up to    *)
(* about 300 m apart, the only pairs scored here.                          *)

\* R = 6371000  # Earth radius in meters
R == 6371000

\* math.radians over half a turn, times R: pi * R in kilometres
HalfTurnKm == ((R \div 1000) * 355) \div 113

\* sub-units of arc per centimetre of meridian, times HalfTurnKm
ArcPerCm == (180 * Deg) \div 100000

\* math.cos of a latitude given in sub-units, in thousandths
cos(lat) ==
  LET h == Abs(lat) \div (Deg \div 2)
  IN ((129600 - 4 * h * h) * 1000) \div (129600 + h * h)

RECURSIVE SqrtBetween(_, _, _)
SqrtBetween(n, lo, hi) ==
  IF lo >= hi THEN lo
  ELSE LET mid == (lo + hi + 1) \div 2
       IN IF mid * mid <= n THEN SqrtBetween(n, mid, hi)
          ELSE SqrtBetween(n, lo, mid - 1)

\* math.sqrt, rounded down
sqrt(n) == SqrtBetween(n, 0, 46340)

\* a None where a geometry is expected
None == [isdict |-> FALSE, type |-> "None", coordinates |-> <<>>]

\* float("inf")
Inf == [inf |-> TRUE, total |-> 0, count |-> 1]

\* total / count as an exact fraction of centimetres
Mean(total, count) == [inf |-> FALSE, total |-> total, count |-> count]

\* a length given in metres
Metres(m) == 100 * m

\* accuracy < tolerance and accuracy <= tolerance, tolerance in centimetres
Less(accuracy, tolerance) ==
  ~accuracy.inf /\ accuracy.total < tolerance * accuracy.count

LessEq(accuracy, tolerance) ==
  ~accuracy.inf /\ accuracy.total <= tolerance * accuracy.count

\* OpenLRService._calculate_distance(point1, point2), in centimetres
calculate_distance(point1, point2) ==
  LET dlat == Abs(point2[2] - point1[2])
      turned == Abs(point2[1] - point1[1])
      dlon == IF turned > 180 * Deg THEN 360 * Deg - turned ELSE turned
      north == (dlat * HalfTurnKm) \div ArcPerCm
      east == (dlon * HalfTurnKm) \div ArcPerCm
      a == north * north
             + ((east * cos(point1[2])) \div 1000) * ((east * cos(point2[2])) \div 1000)
  IN sqrt(a)

\* the sum of the distances of the pairs lo..hi of two coordinate lists
RECURSIVE SumDistances(_, _, _, _)
SumDistances(coords1, coords2, lo, hi) ==
  IF lo > hi THEN 0
  ELSE IF lo = hi THEN calculate_distance(coords1[lo], coords2[lo])
  ELSE LET mid == (lo + hi) \div 2
       IN SumDistances(coords1, coords2, lo, mid)
            + SumDistances(coords1, coords2, mid + 1, hi)

\* OpenLRService._calculate_geometry_accuracy(original, decoded)
calculate_geometry_accuracy(original, dec) ==
  IF original = None \/ dec = None THEN Inf
  ELSE LET orig_coords == original.coordinates
           dec_coords == dec.coordinates
       IN IF Len(orig_coords) # Len(dec_coords) THEN Inf
          ELSE IF orig_coords = <<>> THEN Inf
          ELSE Mean(SumDistances(orig_coords, dec_coords, 1, Len(orig_coords)),
                    Len(orig_coords))

\* the report of a call that has not been made
NoReport ==
  [op |-> "idle", success |-> FALSE, error |-> "", openlr_code |-> EmptyText,
   decoded_geometry |-> None, accuracy_meters |-> Inf, valid |-> FALSE,
   keys |-> {}]

\* the except clause of test_encoding_roundtrip
RoundtripFailed(msg) ==
  [op |-> "test_encoding_roundtrip", success |-> FALSE, error |-> msg,
   openlr_code |-> EmptyText, decoded_geometry |-> None,
   accuracy_meters |-> Inf, valid |-> FALSE,
   keys |-> {"success", "error", "original_geometry"}]

\* the dictionary test_encoding_roundtrip returns from its try block
RoundtripReport(e, dec, accuracy, valid) ==
  [op |-> "test_encoding_roundtrip", success |-> dec # None, error |-> "",
   openlr_code |-> e.value, decoded_geometry |-> dec,
   accuracy_meters |-> accuracy, valid |-> valid,
   keys |-> {"success", "original_geometry", "openlr_code",
             "decoded_geometry", "accuracy_meters", "valid"}]

\* what decode_openlr returns: a LineString dictionary or None
DecodedGeometry(d) ==
  IF d.status = "ok" THEN Geom("LineString", d.coordinates) ELSE None

\* test_encoding_roundtrip with the comparison turned round
test_encoding_roundtrip_inverted(en, fmt, tolerance, g) ==
  LET e == encode_geometry(en, fmt, g)
      d == IF e.status = "ok" THEN decode_openlr(en, e.value)
           ELSE [status |-> "none"]
      dec == DecodedGeometry(d)
      accuracy == IF dec # None THEN calculate_geometry_accuracy(g, dec)
                  ELSE Mean(0, 1)
  IN IF e.status = "raise" THEN RoundtripFailed(e.msg)
     ELSE IF d.status = "raise" THEN RoundtripFailed(d.msg)
     ELSE RoundtripReport(e, dec, accuracy,
                          IF dec # None THEN ~Less(accuracy, tolerance) ELSE FALSE)

\* OpenLRService.test_encoding_roundtrip(geometry); tolerance is
\* settings.OPENLR_ACCURACY_TOLERANCE in centimetres
test_encoding_roundtrip(en, fmt, tolerance, g) ==
  LET e == encode_geometry(en, fmt, g)
      d == IF e.status = "ok" THEN decode_openlr(en, e.value)
           ELSE [status |-> "none"]
      dec == DecodedGeometry(d)
      accuracy == IF dec # None THEN calculate_geometry_accuracy(g, dec)
                  ELSE Mean(0, 1)
  IN IF e.status = "raise" THEN RoundtripFailed(e.msg)
     ELSE IF d.status = "raise" THEN RoundtripFailed(d.msg)
     ELSE RoundtripReport(e, dec, accuracy,
                          IF dec # None THEN Less(accuracy, tolerance) ELSE FALSE)

\* the loop of ClosureService._calculate_geometry_accuracy: the indices of
\* coords1 that coords2 has too are scored, the others are passed over
\* (_calculate_haversine_distance is _calculate_distance line for line)
PairedDistances(coords1, coords2) ==
  LET point_count == Cardinality({i \in 1..Len(coords1) : i <= Len(coords2)})
  IN [total_distance |-> SumDistances(coords1, coords2, 1, point_count),
      point_count |-> point_count]

\* ClosureService._calculate_geometry_accuracy(geom1, geom2)
ClosureService_calculate_geometry_accuracy(geom1, geom2) ==
  IF geom1 = None \/ geom2 = None THEN Inf
  ELSE LET coords1 == geom1.coordinates
           coords2 == geom2.coordinates
       IN IF coords1 = <<>> \/ coords2 = <<>> THEN Inf
          ELSE LET sums == PairedDistances(coords1, coords2)
               IN IF sums.point_count > 0
                  THEN Mean(sums.total_distance, sums.point_count)
                  ELSE Inf

\* round(accuracy, 2): whole centimetres, halves to the even neighbour
round2(accuracy) ==
  IF accuracy.inf THEN Inf
  ELSE LET q == accuracy.total \div accuracy.count
           r == accuracy.total % accuracy.count
       IN Mean(IF 2 * r > accuracy.count THEN q + 1
               ELSE IF 2 * r = accuracy.count THEN q + (q % 2)
               ELSE q, 1)

\* ClosureService._validate_openlr_code(openlr_code, original_geometry)
ClosureService_validate_openlr_code(en, tolerance, code, original_geometry) ==
  LET d == decode_openlr(en, code)
      dec == DecodedGeometry(d)
      accuracy == ClosureService_calculate_geometry_accuracy(original_geometry, dec)
  IN IF d.status = "raise"
     THEN [op |-> "_validate_openlr_code", success |-> FALSE, error |-> d.msg,
           openlr_code |-> EmptyText, decoded_geometry |-> None,
           accuracy_meters |-> Inf, valid |-> FALSE, keys |-> {"valid", "error"}]
     ELSE IF dec = None
     THEN [op |-> "_validate_openlr_code", success |-> FALSE,
           error |-> "Failed to decode OpenLR code",
           openlr_code |-> EmptyText, decoded_geometry |-> None,
           accuracy_meters |-> Inf, valid |-> FALSE, keys |-> {"valid", "error"}]
     ELSE [op |-> "_validate_openlr_code", success |-> FALSE, error |-> "",
           openlr_code |-> code, decoded_geometry |-> dec,
           accuracy_meters |-> round2(accuracy),
           valid |-> LessEq(accuracy, tolerance),
           keys |-> {"valid", "accuracy_meters", "tolerance_meters",
                     "decoded_geometry", "openlr_code"}]

----------------------------------------------------------------------------
(* The way geometry: what _fetch_osm_way_geometry makes of the answer of   *)
(* the map service.  An answer is the failure of the request, if any, the  *)
(* ways it carries (id to node ids) and the nodes it carries (id to        *)
(* coordinate).  A node argument of 0 stands for one not supplied.         *)

\* the index list.index(x) returns: that of the first occurrence
Index(node_ids, x) == Min({i \in 1..Len(node_ids) : node_ids[i] = x})

\* x in list
Has(node_ids, x) == \E i \in 1..Len(node_ids) : node_ids[i] = x

\* the start filter: node_ids[start_idx:], left out when start_node is not
\* supplied or not in the list
from_start(node_ids, start_node) ==
  IF start_node # 0 /\ Has(node_ids, start_node)
  THEN SubSeq(node_ids, Index(node_ids, start_node), Len(node_ids))
  ELSE node_ids

\* the end filter: node_ids[: end_idx + 1], left out when end_node is not
\* supplied or not in the list
to_end(node_ids, end_node) ==
  IF end_node # 0 /\ Has(node_ids, end_node)
  THEN SubSeq(node_ids, 1, Index(node_ids, end_node))
  ELSE node_ids

\* the coordinates of the node ids the answer has a node for, in order
node_coordinates(nodes, node_ids) ==
  LET known == SelectSeq(node_ids, LAMBDA n : n \in DOMAIN nodes)
  IN [i \in 1..Len(known) |-> nodes[known[i]]]

WayRaised(msg) ==
  [status |-> "raise", exc |-> OpenLRException, msg |-> msg, geometry |-> None]

WayReturned(coordinates) ==
  [status |-> "ok", exc |-> "", msg |-> "",
   geometry |-> Geom("LineString", coordinates)]

\* the geometry of the node ids left, or the failure when fewer than two of
\* them have a coordinate
node_filtered(nodes, node_ids) ==
  IF Len(node_coordinates(nodes, node_ids)) < 2
  THEN WayRaised("Insufficient coordinates for way")
  ELSE WayReturned(node_coordinates(nodes, node_ids))

\* OpenLRService._fetch_osm_way_geometry(way_id, start_node, end_node) on
\* the answer response
fetch_osm_way_geometry(response, way_id, start_node, end_node) ==
  IF response.fault # ""
  THEN WayRaised("Failed to fetch OSM data")
  ELSE IF way_id \notin DOMAIN response.ways
  THEN WayRaised("OSM way not found")
  ELSE node_filtered(response.nodes,
                     to_end(from_start(response.ways[way_id], start_node),
                            end_node))

\* the except clause of encode_osm_way: whatever the fetch or the encode
\* raised becomes an OpenLRException
osm_way_caught(r) ==
  IF r.status = "raise"
  THEN [status |-> "raise", exc |-> OpenLRException,
        msg |-> "OSM way encoding failed", value |-> EmptyText]
  ELSE [status |-> r.status, exc |-> "", msg |-> "", value |-> r.value]

\* OpenLRService.encode_osm_way(way_id, start_node, end_node), fetched being
\* what _fetch_osm_way_geometry came to
encode_osm_way(en, fmt, fetched) ==
  IF ~en
  THEN [status |-> "none", exc |-> "", msg |-> "", value |-> EmptyText]
  ELSE IF fetched.status = "raise"
  THEN osm_way_caught([status |-> "raise", value |-> EmptyText])
  ELSE osm_way_caught(encode_geometry(en, fmt, fetched.geometry))

\* no answer of the map service
NoResponse == [fault |-> "", ways |-> <<>>, nodes |-> <<>>]

\* no fetch yet
NoFetch == [status |-> "idle", exc |-> "", msg |-> "", geometry |-> None]

\* no call for a way yet
NoWay ==
  [op |-> "idle", response |-> NoResponse, way_id |-> 0, start_node |-> 0,
   end_node |-> 0, fetched |-> NoFetch,
   result |-> [status |-> "idle", exc |-> "", msg |-> "", value |-> EmptyText]]

----------------------------------------------------------------------------
(* Inputs *)

\* the coordinate lonMicro + lonFrac/SubSteps, latMicro + latFrac/SubSteps
\* micro-degrees
Pt(lonMicro, lonFrac, latMicro, latFrac) ==
  << lonMicro * SubSteps + lonFrac, latMicro * SubSteps + latFrac >>

\* coordinates the validator accepts: two street corners, the two corners of
\* the coordinate range, and a point strictly between quantization steps
ValidPoints ==
  << Pt(-87629800, 0, 41878100, 0),
     Pt(-87629000, 0, 41878500, 0),
     Pt(180000000, 0, 90000000, 0),
     Pt(-180000000, 0, -90000000, 0),
     Pt(1, (SubSteps + 1) \div 2, -1, 1) >>

\* coordinates the validator rejects: longitude 200, latitude 95, one
\* sub-unit beyond longitude 180, and a coordinate with three members
InvalidPoints ==
  { Pt(200000000, 0, 0, 0),
    Pt(0, 0, 95000000, 0),
    Pt(180000000, 1, 0, 0),
    << 0, 0, 0 >> }

Points == {ValidPoints[i] : i \in 1..Len(ValidPoints)} \cup InvalidPoints

\* a LineString of n valid points
LongLine(n) ==
  Geom("LineString", [i \in 1..n |-> ValidPoints[(i % Len(ValidPoints)) + 1]])

ShortLines ==
  UNION {{Geom("LineString", cs) : cs \in [1..n -> Points]} : n \in 0..MaxShortLen}

Geometries ==
  ShortLines
    \cup {LongLine(MaxByte), LongLine(MaxByte + 1)}
    \cup {Geom("Point", <<ValidPoints[1]>>),
          Geom("Polygon", <<ValidPoints[1], ValidPoints[2], ValidPoints[3], ValidPoints[1]>>),
          Geom("MultiLineString", <<ValidPoints[1], ValidPoints[2]>>),
          NotADict}

\* the hex text of data with a blank after the first byte
HexSpaced(data) ==
  LET h == hex(data)
  IN IF Len(h) < 2 THEN h
     ELSE SubSeq(h, 1, 2) \o <<" ">> \o SubSeq(h, 3, Len(h))

\* data with byte k replaced by b
WithByte(data, k, b) == [data EXCEPT ![k] = b]

\* an XML document with one Point element
XmlDoc(pts) == [chars |-> <<"<", "a", ">">>, doc |-> [wf |-> TRUE, points |-> pts]]

\* texts that do not come from the encoder
FixedCodes ==
  { EmptyText,
    Txt(<<"Q", "g", "=", "=">>),
    Txt(<<"Q", "g", "A", "=">>),
    Txt(<<"z", "z">>),
    Txt(<<"4", "2">>),
    Txt(<<"4", "1">>),
    Txt(<<"4", "2", "0", "0">>),
    Txt(<<"4", "2", " ", "0", "0">>),
    Txt(<<"4", " ", "2">>),
    Txt(<<"h", "e", "l", "l", "o">>),
    Txt(<<"=">>),
    [chars |-> <<"<">>, doc |-> NoDoc],
    XmlDoc(<<>>),
    XmlDoc(<<[id |-> 0, lon |-> MissingField, lat |-> Field(0)]>>),
    XmlDoc(<<[id |-> 0, lon |-> Field(0), lat |-> BadField]>>) }

\* texts made from the reference the encoder has just returned: the
\* reference itself, the hex text of its payload with and without a blank,
\* the XML form, and damaged copies (wrong marker, wrong count, a byte cut
\* off, a character cut off)
DerivedCodes ==
  IF encoded.status # "ok" THEN {}
  ELSE { encoded.value,
         Txt(hex(encoded.data)),
         Txt(HexSpaced(encoded.data)),
         encode_to_xml_simple(geometry.coordinates),
         Txt(b64encode(WithByte(encoded.data, 1, MARKER - 1))),
         Txt(b64encode(WithByte(encoded.data, 2, encoded.data[2] - 1))),
         Txt(b64encode(SubSeq(encoded.data, 1, Len(encoded.data) - 1))),
         Txt(SubSeq(encoded.value.chars, 1, Len(encoded.value.chars) - 1)) }

Codes == FixedCodes \cup DerivedCodes

\* config.py, class Settings: the defaults; the tolerance is in centimetres
Settings ==
  [OPENLR_ENABLED |-> TRUE,
   OPENLR_FORMAT |-> BASE64,
   OPENLR_ACCURACY_TOLERANCE |-> Metres(50),
   OPENLR_VALIDATE_ROUNDTRIP |-> TRUE]

\* values of OPENLR_ACCURACY_TOLERANCE in centimetres: none, one metre, and
\* the production, default and development values of config.py
Tolerances == {Metres(0), Metres(1), Metres(25), Metres(50), Metres(100)}

\* the configurations the environment may supply
SettingsSpace ==
  [OPENLR_ENABLED : BOOLEAN,
   OPENLR_FORMAT : OpenLRFormat,
   OPENLR_ACCURACY_TOLERANCE : Tolerances,
   OPENLR_VALIDATE_ROUNDTRIP : BOOLEAN]

\* the sessions of regenerate_openlr_codes that may be open at once
Runs == 1..2

\* the dictionary regenerate_openlr_codes starts from; counted tells
\* whether it has the four count entries
NoResults ==
  [counted |-> FALSE, total_processed |-> 0, successful |-> 0, failed |-> 0,
   errors |-> <<>>, error |-> ""]

\* a call of regenerate_openlr_codes that has not begun: closures are the
\* ids the query returned, done the number of them the loop has passed,
\* pending the references set on the session's closures and not committed
NoRun ==
  [pc |-> "idle", force |-> FALSE, closures |-> <<>>, done |-> 0,
   pending |-> <<>>, results |-> NoResults]

\* what _encode_geometry_to_openlr has to say when it was not called
NoResult ==
  [success |-> FALSE, openlr_code |-> EmptyText, error |-> "", raised |-> FALSE]

\* the arguments of a call on the closures table and the table it found:
\* status is the status of the request ("" when it has none), clock where
\* the time of the call lies with respect to the schedule of the closure
NoCall ==
  [closure_id |-> 0, user |-> [id |-> 0, is_moderator |-> FALSE],
   status |-> "", clock |-> "", rows |-> <<>>]

\* no create_closure, update_closure or delete_closure has been called
NoOutcome ==
  [op |-> "idle", raised |-> FALSE, exc |-> "", msg |-> "", id |-> 0,
   geometry |-> None, result |-> NoResult, call |-> NoCall]

----------------------------------------------------------------------------
(* The state machine: calls on one OpenLRService.  The service keeps no   *)
(* state between calls, so a behaviour is one call of encode_geometry    *)
(* followed by one call of decode_openlr or of validate_openlr_code on a *)
(* text taken from Codes.                                                *)

NotEncoded == [status |-> "idle", exc |-> "", msg |-> "", value |-> EmptyText, data |-> <<>>]

NotDecoded == [status |-> "idle", exc |-> "", msg |-> "", via |-> "", coordinates |-> <<>>]

NotValidated == [called |-> FALSE, raised |-> FALSE, result |-> FALSE]

\* OpenLRService.__init__
Init ==
  /\ enabled \in BOOLEAN
  /\ format = BASE64
  /\ geometry = NotADict
  /\ encoded = NotEncoded
  /\ openlr_code = EmptyText
  /\ decoded = NotDecoded
  /\ validated = NotValidated
  /\ settings = [Settings EXCEPT !.OPENLR_ENABLED = enabled]
  /\ report = NoReport
  /\ db = <<>>
  /\ runs = [r \in Runs |-> NoRun]
  /\ outcome = NoOutcome
  /\ way = NoWay

\* a call of encode_geometry(g)
EncodeGeometry(g) ==
  /\ encoded.status = "idle" /\ report.op = "idle"
  /\ geometry' = g
  /\ encoded' = encode_geometry(enabled, format, g)
  /\ openlr_code' = EmptyText
  /\ decoded' = NotDecoded
  /\ validated' = NotValidated
  /\ UNCHANGED <<enabled, format>>
  /\ UNCHANGED <<settings, report, db, runs, outcome, way>>

\* a call of decode_openlr(code)
DecodeOpenlr(code) ==
  /\ encoded.status # "idle"
  /\ decoded.status = "idle" /\ ~validated.called
  /\ openlr_code' = code
  /\ decoded' = decode_openlr(enabled, code)
  /\ validated' = NotValidated
  /\ UNCHANGED <<enabled, format, geometry, encoded>>
  /\ UNCHANGED <<settings, report, db, runs, outcome, way>>

\* a call of validate_openlr_code(code)
ValidateOpenlrCode(code) ==
  /\ encoded.status # "idle"
  /\ decoded.status = "idle" /\ ~validated.called
  /\ openlr_code' = code
  /\ validated' = [called |-> TRUE] @@ validate_openlr_code(enabled, code)
  /\ decoded' = NotDecoded
  /\ UNCHANGED <<enabled, format, geometry, encoded>>
  /\ UNCHANGED <<settings, report, db, runs, outcome, way>>

Next ==
  \/ \E g \in Geometries : EncodeGeometry(g)
  \/ \E code \in Codes : DecodeOpenlr(code)
  \/ \E code \in Codes : ValidateOpenlrCode(code)

Spec == Init /\ [][Next]_vars

----------------------------------------------------------------------------
(* ClosureService (backend/app/services/closure_service.py) over a store   *)
(* of closures.  db is the committed content of the closures table, one    *)
(* row per closure in the order of their ids; of a row the model keeps the *)
(* geometry, the reference and the submitter.  A NULL reference is the     *)
(* empty text.  Each request has its own session and service, so a         *)
(* behaviour is one call of create_closure or update_closure on a table    *)
(* with content, or calls of regenerate_openlr_codes on it.                *)

ValidationException == "ValidationException"

NotFoundException == "NotFoundException"

\* core/exceptions.py: raised by the OAuth service only
ExternalServiceException == "ExternalServiceException"

\* ClosureService._validate_geometry: "" when the geometry passes, else the
\* message of the GeospatialException (the distance warnings are log lines)
closure_validate_geometry(g) ==
  IF ~g.isdict THEN "Geometry must be a GeoJSON object"
  ELSE IF g.type \notin {"LineString", "Point", "Polygon"}
  THEN "Unsupported geometry type"
  ELSE IF g.type = "LineString" /\ Len(g.coordinates) < 2
  THEN "LineString must have at least 2 coordinates"
  ELSE ""

\* the try body of _encode_geometry_to_openlr, from the codec's answer e and
\* the round-trip report: the result dict it builds, raised when the codec's
\* exception leaves the body
encode_attempt(e, validate_roundtrip, roundtrip_result) ==
  IF e.status = "raise"
  THEN [success |-> FALSE, openlr_code |-> EmptyText, error |-> e.msg,
        raised |-> TRUE]
  ELSE IF e.status = "none"
  THEN [success |-> FALSE, openlr_code |-> EmptyText,
        error |-> "OpenLR encoding returned None", raised |-> FALSE]
  ELSE IF ~validate_roundtrip
  THEN [success |-> TRUE, openlr_code |-> e.value, error |-> "",
        raised |-> FALSE]
  ELSE [success |-> IF "success" \in roundtrip_result.keys
                    THEN roundtrip_result.success ELSE TRUE,
        openlr_code |-> IF "openlr_code" \in roundtrip_result.keys
                        THEN roundtrip_result.openlr_code ELSE e.value,
        error |-> IF "error" \in roundtrip_result.keys
                  THEN roundtrip_result.error ELSE "",
        raised |-> FALSE]

\* the except clause of _encode_geometry_to_openlr: the exception becomes
\* the returned dict
encode_caught(attempt) ==
  [attempt EXCEPT !.raised = FALSE]

\* _encode_geometry_to_openlr without its try/except: what the codec raises
\* leaves the call
encode_geometry_to_openlr_propagates(en, fmt, validate_roundtrip, tolerance, g) ==
  encode_attempt(encode_geometry(en, fmt, g), validate_roundtrip,
                 test_encoding_roundtrip(en, fmt, tolerance, g))

\* ClosureService._encode_geometry_to_openlr(geometry); raised tells whether
\* an exception leaves the call
encode_geometry_to_openlr(en, fmt, validate_roundtrip, tolerance, g) ==
  encode_caught(encode_attempt(encode_geometry(en, fmt, g), validate_roundtrip,
                               test_encoding_roundtrip(en, fmt, tolerance, g)))

\* the reference create_closure and update_closure put on the closure
\* after the encode
StoredCode(openlr_result) ==
  IF openlr_result.success /\ openlr_result.openlr_code # EmptyText
  THEN openlr_result.openlr_code
  ELSE EmptyText

\* the encode call of a ClosureService built from the settings
ServiceEncode(g) ==
  encode_geometry_to_openlr(enabled, format, settings.OPENLR_VALIDATE_ROUNDTRIP,
                            settings.OPENLR_ACCURACY_TOLERANCE, g)

\* models/closure.py, class ClosureStatus
ACTIVE == "active"

EXPIRED == "expired"

CANCELLED == "cancelled"

PLANNED == "planned"

ClosureStatus == {ACTIVE, EXPIRED, CANCELLED, PLANNED}

\* where the time of a call lies: before start_time, between start_time and
\* end_time, or after end_time
Clocks == {"before", "during", "after"}

\* the row of a closure that delete_closure took from the table
Gone ==
  [geometry |-> None, openlr_code |-> EmptyText, submitter_id |-> 0,
   status |-> "deleted"]

\* the ids get_closure_by_id finds
Present(rows) == {i \in 1..Len(rows) : rows[i] # Gone}

\* the loop of update_closure over the other fields of the request
set_fields(closure, status) ==
  IF status = "" THEN closure ELSE [closure EXCEPT !.status = status]

\* Closure.update_status_if_needed()
update_status_if_needed(closure, clock) ==
  IF closure.status = CANCELLED THEN closure
  ELSE IF clock = "after" /\ closure.status = ACTIVE
  THEN [closure EXCEPT !.status = EXPIRED]
  ELSE IF clock # "before" /\ closure.status = PLANNED
  THEN [closure EXCEPT !.status = ACTIVE]
  ELSE closure

\* _can_edit_closure with the permission given to every user
can_edit_closure_anyone(closure, user) ==
  TRUE

\* ClosureService._can_edit_closure(closure, user)
can_edit_closure(closure, user) ==
  user.is_moderator \/ closure.submitter_id = user.id

\* update_closure with the reference left as it was when the encode fails
updated_closure_keeps(closure, g, openlr_result) ==
  [closure EXCEPT !.geometry = g,
                  !.openlr_code = IF StoredCode(openlr_result) # EmptyText
                                  THEN StoredCode(openlr_result)
                                  ELSE closure.openlr_code]

\* the closure as update_closure leaves it when a geometry is supplied
updated_closure(closure, g, openlr_result) ==
  [closure EXCEPT !.geometry = g, !.openlr_code = StoredCode(openlr_result)]

\* what a call of create_closure or update_closure came to
Raised(op, exc, msg, g, openlr_result) ==
  [op |-> op, raised |-> TRUE, exc |-> exc, msg |-> msg, id |-> 0,
   geometry |-> g, result |-> openlr_result, call |-> NoCall]

Returned(op, id, g, openlr_result) ==
  [op |-> op, raised |-> FALSE, exc |-> "", msg |-> "", id |-> id,
   geometry |-> g, result |-> openlr_result, call |-> NoCall]

\* geometries handed to create_closure and update_closure: two LineStrings,
\* a Point, a Polygon, a LineString of 256 points, and two the closure
\* validation rejects
StoreGeometries ==
  { Geom("LineString", <<ValidPoints[1], ValidPoints[2]>>),
    Geom("LineString", <<ValidPoints[2], ValidPoints[1]>>),
    Geom("Point", ValidPoints[1]),
    Geom("Polygon", <<ValidPoints[1], ValidPoints[2], ValidPoints[3], ValidPoints[1]>>),
    LongLine(MaxByte + 1),
    Geom("LineString", <<ValidPoints[1]>>),
    Geom("MultiLineString", <<ValidPoints[1], ValidPoints[2]>>) }

\* geometries of the requests that edit a closure: none, or a LineString
EditGeometries == {None, Geom("LineString", <<ValidPoints[2], ValidPoints[1]>>)}

\* a submitter, another user and a moderator
Users ==
  { [id |-> 1, is_moderator |-> FALSE],
    [id |-> 2, is_moderator |-> FALSE],
    [id |-> 3, is_moderator |-> TRUE] }

\* create_closure(closure_data, user_id); commit_ok tells whether the
\* database accepts the commit
CreateClosure(g, user_id, commit_ok) ==
  /\ outcome.op = "idle"
  /\ Len(db) < MaxClosures
  /\ LET fault == closure_validate_geometry(g)
         openlr_result == ServiceEncode(g)
         closure == [geometry |-> g,
                     openlr_code |-> StoredCode(openlr_result),
                     submitter_id |-> user_id,
                     status |-> ACTIVE]
     IN IF fault # ""
        THEN /\ outcome' = Raised("create_closure", GeospatialException, fault,
                                  g, NoResult)
             /\ db' = db
        ELSE IF openlr_result.raised
        THEN /\ outcome' = Raised("create_closure", ValidationException,
                                  openlr_result.error, g, openlr_result)
             /\ db' = db
        ELSE IF ~commit_ok
        THEN /\ outcome' = Raised("create_closure", ValidationException,
                                  "Failed to create closure", g, openlr_result)
             /\ db' = db
        ELSE /\ outcome' = Returned("create_closure", Len(db) + 1, g, openlr_result)
             /\ db' = Append(db, closure)
  /\ UNCHANGED <<codecVars, settings, report, runs, way>>

\* what a call on the table came to and the table it left
Done(result, rows) == [outcome |-> result, rows |-> rows]

\* ClosureService.update_closure(closure_id, closure_data, user) on the table
\* rows; g is the geometry of closure_data (None when it has none), status
\* its status, openlr_result what _encode_geometry_to_openlr came to for g
update_closure(rows, closure_id, g, status, clock, user, commit_ok, openlr_result) ==
  IF closure_id \notin Present(rows)
  THEN Done(Raised("update_closure", NotFoundException, "Closure not found",
                   g, NoResult), rows)
  ELSE IF ~can_edit_closure(rows[closure_id], user)
  THEN Done(Raised("update_closure", ValidationException,
                   "You don't have permission to edit this closure",
                   g, NoResult), rows)
  ELSE IF g # None /\ closure_validate_geometry(g) # ""
  THEN Done(Raised("update_closure", ValidationException,
                   closure_validate_geometry(g), g, NoResult), rows)
  ELSE IF g # None /\ openlr_result.raised
  THEN Done(Raised("update_closure", ValidationException,
                   openlr_result.error, g, openlr_result), rows)
  ELSE IF ~commit_ok
  THEN Done(Raised("update_closure", ValidationException,
                   "Failed to update closure", g, openlr_result), rows)
  ELSE Done(Returned("update_closure", closure_id, g, openlr_result),
            [rows EXCEPT ![closure_id] =
               update_status_if_needed(
                 set_fields(IF g = None THEN @
                            ELSE updated_closure(@, g, openlr_result),
                            status),
                 clock)])

\* ClosureService.delete_closure(closure_id, user) on the table rows
delete_closure(rows, closure_id, user, commit_ok) ==
  IF closure_id \notin Present(rows)
  THEN Done(Raised("delete_closure", NotFoundException, "Closure not found",
                   None, NoResult), rows)
  ELSE IF ~can_edit_closure(rows[closure_id], user)
  THEN Done(Raised("delete_closure", ValidationException,
                   "You don't have permission to delete this closure",
                   None, NoResult), rows)
  ELSE IF ~commit_ok
  THEN Done(Raised("delete_closure", ValidationException,
                   "Failed to delete closure", None, NoResult), rows)
  ELSE Done(Returned("delete_closure", closure_id, None, NoResult),
            [rows EXCEPT ![closure_id] = Gone])

\* the arguments of a call and the table it found
Call(closure_id, user, status, clock, rows) ==
  [closure_id |-> closure_id, user |-> user, status |-> status,
   clock |-> clock, rows |-> rows]

\* a call of update_closure(closure_id, closure_data, user); commit_ok tells
\* whether the database accepts the commit
UpdateClosure(closure_id, g, status, clock, user, commit_ok) ==
  /\ outcome.op = "idle"
  /\ outcome' = [update_closure(db, closure_id, g, status, clock, user,
                                commit_ok,
                                IF g = None THEN NoResult
                                ELSE ServiceEncode(g)).outcome
                   EXCEPT !.call = Call(closure_id, user, status, clock, db)]
  /\ db' = update_closure(db, closure_id, g, status, clock, user, commit_ok,
                          IF g = None THEN NoResult ELSE ServiceEncode(g)).rows
  /\ UNCHANGED <<codecVars, settings, report, runs, way>>

\* a call of delete_closure(closure_id, user)
DeleteClosure(closure_id, user, commit_ok) ==
  /\ outcome.op = "idle"
  /\ outcome' = [delete_closure(db, closure_id, user, commit_ok).outcome
                   EXCEPT !.call = Call(closure_id, user, "", "", db)]
  /\ db' = delete_closure(db, closure_id, user, commit_ok).rows
  /\ UNCHANGED <<codecVars, settings, report, runs, way>>

\* the ids of a set in ascending order
Ascending(ids) ==
  [k \in 1..Cardinality(ids) |->
     CHOOSE i \in ids : Cardinality({j \in ids : j < i}) = k - 1]

\* the query of regenerate_openlr_codes with the filter left out
select_closures_all(rows, force) ==
  Ascending(Present(rows))

\* the query of regenerate_openlr_codes: every closure, or with force off
\* those whose reference is NULL
select_closures(rows, force) ==
  Ascending({i \in Present(rows) : force \/ rows[i].openlr_code = EmptyText})

\* one failed closure more in the results
Failed(results, closure_id, msg) ==
  [results EXCEPT !.failed = @ + 1,
                  !.errors = Append(@, [closure |-> closure_id, msg |-> msg])]

\* the loop body with a failure clearing the reference of the closure
process_closure_clears(run, fetch, rows) ==
  LET closure_id == run.closures[run.done + 1]
      openlr_result == ServiceEncode(rows[closure_id].geometry)
      cleared == (closure_id :> EmptyText) @@ run.pending
  IN IF fetch = "error"
     THEN [run EXCEPT !.done = @ + 1, !.pending = cleared,
                      !.results = Failed(@, closure_id, "query failed")]
     ELSE IF fetch = "none"
     THEN [run EXCEPT !.done = @ + 1, !.pending = cleared,
                      !.results = Failed(@, closure_id, "No geometry available")]
     ELSE IF openlr_result.raised
     THEN [run EXCEPT !.done = @ + 1, !.pending = cleared,
                      !.results = Failed(@, closure_id, openlr_result.error)]
     ELSE IF StoredCode(openlr_result) # EmptyText
     THEN [run EXCEPT !.done = @ + 1,
                      !.pending = (closure_id :> StoredCode(openlr_result)) @@ @,
                      !.results.successful = @ + 1]
     ELSE [run EXCEPT !.done = @ + 1, !.pending = cleared,
                      !.results = Failed(@, closure_id, openlr_result.error)]

\* the loop body with no error entry for a closure without geometry
process_closure_silent(run, fetch, rows) ==
  LET closure_id == run.closures[run.done + 1]
      openlr_result == ServiceEncode(rows[closure_id].geometry)
  IN IF fetch = "error"
     THEN [run EXCEPT !.done = @ + 1,
                      !.results = Failed(@, closure_id, "query failed")]
     ELSE IF fetch = "none"
     THEN [run EXCEPT !.done = @ + 1, !.results.failed = @ + 1]
     ELSE IF openlr_result.raised
     THEN [run EXCEPT !.done = @ + 1,
                      !.results = Failed(@, closure_id, openlr_result.error)]
     ELSE IF StoredCode(openlr_result) # EmptyText
     THEN [run EXCEPT !.done = @ + 1,
                      !.pending = (closure_id :> StoredCode(openlr_result)) @@ @,
                      !.results.successful = @ + 1]
     ELSE [run EXCEPT !.done = @ + 1,
                      !.results = Failed(@, closure_id, openlr_result.error)]

\* the body of the loop of regenerate_openlr_codes for the next closure.
\* fetch is what the geometry query gives: "row" the geometry of the
\* closure, "none" no geometry, "error" an exception
process_closure(run, fetch, rows) ==
  LET closure_id == run.closures[run.done + 1]
      openlr_result == ServiceEncode(rows[closure_id].geometry)
  IN IF fetch = "error"
     THEN [run EXCEPT !.done = @ + 1,
                      !.results = Failed(@, closure_id, "query failed")]
     ELSE IF fetch = "none"
     THEN [run EXCEPT !.done = @ + 1,
                      !.results = Failed(@, closure_id, "No geometry available")]
     ELSE IF openlr_result.raised
     THEN [run EXCEPT !.done = @ + 1,
                      !.results = Failed(@, closure_id, openlr_result.error)]
     ELSE IF StoredCode(openlr_result) # EmptyText
     THEN [run EXCEPT !.done = @ + 1,
                      !.pending = (closure_id :> StoredCode(openlr_result)) @@ @,
                      !.results.successful = @ + 1]
     ELSE [run EXCEPT !.done = @ + 1,
                      !.results = Failed(@, closure_id, openlr_result.error)]

\* the commit of regenerate_openlr_codes with the rollback left out
after_commit_norollback(rows, pending, commit_ok) ==
  [i \in 1..Len(rows) |->
     IF i \in DOMAIN pending
     THEN [rows[i] EXCEPT !.openlr_code = pending[i]]
     ELSE rows[i]]

\* the table after db.commit() of a session with these pending references,
\* or after db.rollback() when the commit fails
after_commit(rows, pending, commit_ok) ==
  IF commit_ok
  THEN [i \in 1..Len(rows) |->
          IF i \in DOMAIN pending
          THEN [rows[i] EXCEPT !.openlr_code = pending[i]]
          ELSE rows[i]]
  ELSE rows

\* regenerate_openlr_codes(force) up to the loop
RegenerateBegin(r, force) ==
  /\ runs[r].pc = "idle"
  /\ runs' = [runs EXCEPT ![r] =
       IF ~settings.OPENLR_ENABLED
       THEN [NoRun EXCEPT !.pc = "done", !.force = force,
                          !.results.error = "OpenLR is disabled"]
       ELSE LET closures == select_closures(db, force)
            IN [NoRun EXCEPT !.pc = "loop", !.force = force,
                             !.closures = closures,
                             !.results.counted = TRUE,
                             !.results.total_processed = Len(closures)]]
  /\ UNCHANGED <<codecVars, settings, report, db, outcome, way>>

\* one pass of the loop
RegenerateClosure(r, fetch) ==
  /\ runs[r].pc = "loop"
  /\ runs[r].done < Len(runs[r].closures)
  /\ runs' = [runs EXCEPT ![r] = process_closure(runs[r], fetch, db)]
  /\ UNCHANGED <<codecVars, settings, report, db, outcome, way>>

\* the commit after the loop, and the return
RegenerateCommit(r, commit_ok) ==
  /\ runs[r].pc = "loop"
  /\ runs[r].done = Len(runs[r].closures)
  /\ db' = after_commit(db, runs[r].pending, commit_ok)
  /\ runs' = [runs EXCEPT ![r].pc = "done",
                          ![r].results.error =
                             IF commit_ok THEN "" ELSE "Failed to commit changes"]
  /\ UNCHANGED <<codecVars, settings, report, outcome, way>>

\* the configurations that differ for ClosureService
StoreSettings ==
  {s \in SettingsSpace : /\ s.OPENLR_FORMAT = Settings.OPENLR_FORMAT
                         /\ s.OPENLR_ACCURACY_TOLERANCE
                              = Settings.OPENLR_ACCURACY_TOLERANCE}

\* rows a call may find in the table: a LineString without reference, one whose
\* reference is that of another geometry, a Point without reference and a
\* LineString with its own reference.  Each geometry occurs with one
\* reference, so what a closure held before a batch is known from its
\* geometry, which no batch changes.
BatchRows ==
  LET line == Geom("LineString", <<ValidPoints[1], ValidPoints[2]>>)
      back == Geom("LineString", <<ValidPoints[2], ValidPoints[1]>>)
      loop == Geom("LineString", <<ValidPoints[1], ValidPoints[2], ValidPoints[1]>>)
  IN { [geometry |-> line, openlr_code |-> EmptyText, submitter_id |-> 1,
        status |-> ACTIVE],
       [geometry |-> back,
        openlr_code |-> encode_geometry(TRUE, BASE64, line).value,
        submitter_id |-> 1, status |-> PLANNED],
       [geometry |-> Geom("Point", ValidPoints[1]), openlr_code |-> EmptyText,
        submitter_id |-> 1, status |-> CANCELLED],
       [geometry |-> loop,
        openlr_code |-> encode_geometry(TRUE, BASE64, loop).value,
        submitter_id |-> 1, status |-> EXPIRED] }

InitialStores == UNION {[1..n -> BatchRows] : n \in 0..MaxClosures}

\* a closures table with content, and the services built from the settings
InitStore ==
  /\ settings \in StoreSettings
  /\ enabled = settings.OPENLR_ENABLED
  /\ format = BASE64
  /\ geometry = NotADict
  /\ encoded = NotEncoded
  /\ openlr_code = EmptyText
  /\ decoded = NotDecoded
  /\ validated = NotValidated
  /\ report = NoReport
  /\ db \in InitialStores
  /\ runs = [r \in Runs |-> NoRun]
  /\ outcome = NoOutcome
  /\ way = NoWay

\* one call of create_closure or update_closure
NextStore ==
  \/ \E g \in StoreGeometries : \E commit_ok \in BOOLEAN :
       CreateClosure(g, 1, commit_ok)
  \/ \E closure_id \in 1..MaxClosures : \E g \in StoreGeometries \cup {None} :
       \E user \in Users : \E commit_ok \in BOOLEAN :
         UpdateClosure(closure_id, g, "", "during", user, commit_ok)

SpecStore == InitStore /\ [][NextStore]_vars

\* one call of update_closure or delete_closure, with and without a status
\* in the request, at any time of the schedule
NextEdit ==
  \/ \E closure_id \in 1..MaxClosures : \E g \in EditGeometries :
       \E status \in ClosureStatus \cup {""} : \E clock \in Clocks :
         \E user \in Users : \E commit_ok \in BOOLEAN :
           UpdateClosure(closure_id, g, status, clock, user, commit_ok)
  \/ \E closure_id \in 1..MaxClosures : \E user \in Users :
       \E commit_ok \in BOOLEAN :
         DeleteClosure(closure_id, user, commit_ok)

SpecEdit == InitStore /\ [][NextEdit]_vars

\* one call of regenerate_openlr_codes
NextBatch ==
  \/ \E force \in BOOLEAN : RegenerateBegin(1, force)
  \/ \E fetch \in {"row", "none", "error"} : RegenerateClosure(1, fetch)
  \/ \E commit_ok \in BOOLEAN : RegenerateCommit(1, commit_ok)

SpecBatch == InitStore /\ [][NextBatch]_vars

\* two calls of regenerate_openlr_codes, each in its own session, their
\* queries, loop passes and commits interleaved
NextConcurrent ==
  \/ \E r \in Runs : \E force \in BOOLEAN : RegenerateBegin(r, force)
  \/ \E r \in Runs : \E fetch \in {"row", "error"} : RegenerateClosure(r, fetch)
  \/ \E r \in Runs : \E commit_ok \in BOOLEAN : RegenerateCommit(r, commit_ok)

SpecConcurrent == InitStore /\ [][NextConcurrent]_vars

\* the reference the codec gives for g, the empty text when it gives none
ReferenceOf(g) ==
  IF encode_geometry(TRUE, BASE64, g).status = "ok"
  THEN encode_geometry(TRUE, BASE64, g).value
  ELSE EmptyText

\* the rows whose reference is NULL or that of their geometry
ConsistentRows ==
  {row \in BatchRows : row.openlr_code \in {EmptyText, ReferenceOf(row.geometry)}}

\* a closures table of such rows, and the services built from the settings
InitRace ==
  /\ settings \in StoreSettings
  /\ enabled = settings.OPENLR_ENABLED
  /\ format = BASE64
  /\ geometry = NotADict
  /\ encoded = NotEncoded
  /\ openlr_code = EmptyText
  /\ decoded = NotDecoded
  /\ validated = NotValidated
  /\ report = NoReport
  /\ db \in UNION {[1..n -> ConsistentRows] : n \in 0..MaxClosures}
  /\ runs = [r \in Runs |-> NoRun]
  /\ outcome = NoOutcome
  /\ way = NoWay

\* the geometries of the requests that run beside a batch
RaceGeometries ==
  { Geom("LineString", <<ValidPoints[1], ValidPoints[2]>>),
    Geom("LineString", <<ValidPoints[2], ValidPoints[1]>>),
    Geom("Point", ValidPoints[1]) }

\* a call of create_closure or update_closure, each a request with its own
\* session, beside one call of regenerate_openlr_codes in another session
NextRace ==
  \/ \E g \in RaceGeometries : \E commit_ok \in BOOLEAN :
       CreateClosure(g, 1, commit_ok)
  \/ \E closure_id \in 1..MaxClosures : \E g \in RaceGeometries :
       \E user \in Users : \E commit_ok \in BOOLEAN :
         UpdateClosure(closure_id, g, "", "during", user, commit_ok)
  \/ \E force \in BOOLEAN : RegenerateBegin(1, force)
  \/ \E fetch \in {"row", "error"} : RegenerateClosure(1, fetch)
  \/ \E commit_ok \in BOOLEAN : RegenerateCommit(1, commit_ok)

SpecRace == InitRace /\ [][NextRace]_vars

----------------------------------------------------------------------------
(* Calls that score a decoded geometry, under every configuration the      *)
(* environment may supply.                                                 *)

\* three coordinates of one street: two corners 80 m apart and a point a
\* fraction of a quantization step from the second corner
NearPoints ==
  { Pt(-87629800, 0, 41878100, 0),
    Pt(-87629000, 0, 41878500, 0),
    Pt(-87629000, 1, 41878500, SubSteps - 1) }

\* the LineStrings of at most two of these coordinates, and two of three
AccuracyLines ==
  UNION {{Geom("LineString", cs) : cs \in [1..n -> NearPoints]} : n \in 0..2}
    \cup {Geom("LineString", <<ValidPoints[1], ValidPoints[2], ValidPoints[1]>>),
          Geom("LineString", <<ValidPoints[1], ValidPoints[2], ValidPoints[2]>>)}

\* references of these LineStrings, an undecodable text and the empty text
AccuracyCodes ==
  {encode_geometry(TRUE, BASE64, g).value :
     g \in {l \in AccuracyLines : Len(l.coordinates) >= 2}}
    \cup {Txt(<<"4", "2">>), EmptyText}

\* the Settings object and the OpenLRService built from it
InitSettings ==
  /\ settings \in {s \in SettingsSpace : s.OPENLR_VALIDATE_ROUNDTRIP}
  /\ enabled = settings.OPENLR_ENABLED
  /\ format = BASE64
  /\ geometry = NotADict
  /\ encoded = NotEncoded
  /\ openlr_code = EmptyText
  /\ decoded = NotDecoded
  /\ validated = NotValidated
  /\ report = NoReport
  /\ db = <<>>
  /\ runs = [r \in Runs |-> NoRun]
  /\ outcome = NoOutcome
  /\ way = NoWay

\* a call of test_encoding_roundtrip(g)
TestEncodingRoundtrip(g) ==
  /\ encoded.status = "idle" /\ report.op = "idle"
  /\ geometry' = g
  /\ report' = test_encoding_roundtrip(enabled, format,
                                       settings.OPENLR_ACCURACY_TOLERANCE, g)
  /\ UNCHANGED <<enabled, format, encoded, openlr_code, decoded, validated>>
  /\ UNCHANGED <<settings, db, runs, outcome, way>>

\* a call of OpenLRService._calculate_geometry_accuracy(original, dec)
CalculateGeometryAccuracy(original, dec) ==
  /\ encoded.status = "idle" /\ report.op = "idle"
  /\ geometry' = original
  /\ report' = [NoReport EXCEPT !.op = "_calculate_geometry_accuracy",
                                !.decoded_geometry = dec,
                                !.accuracy_meters =
                                   calculate_geometry_accuracy(original, dec)]
  /\ UNCHANGED <<enabled, format, encoded, openlr_code, decoded, validated>>
  /\ UNCHANGED <<settings, db, runs, outcome, way>>

\* a call of ClosureService._validate_openlr_code(code, g)
ClosureValidateOpenlrCode(code, g) ==
  /\ encoded.status = "idle" /\ report.op = "idle"
  /\ geometry' = g
  /\ openlr_code' = code
  /\ report' = ClosureService_validate_openlr_code(
                  enabled, settings.OPENLR_ACCURACY_TOLERANCE, code, g)
  /\ UNCHANGED <<enabled, format, encoded, decoded, validated>>
  /\ UNCHANGED <<settings, db, runs, outcome, way>>

NextSettings ==
  \/ \E g \in Geometries : EncodeGeometry(g)
  \/ \E g \in Geometries \cup AccuracyLines : TestEncodingRoundtrip(g)
  \/ \E original \in AccuracyLines \cup {None} :
       \E dec \in AccuracyLines \cup {None} :
         CalculateGeometryAccuracy(original, dec)
  \/ \E code \in AccuracyCodes : \E g \in AccuracyLines :
       ClosureValidateOpenlrCode(code, g)

SpecSettings == InitSettings /\ [][NextSettings]_vars

----------------------------------------------------------------------------
(* Calls that ask the map service for a way.  A behaviour is one call, on  *)
(* one answer of the service.                                              *)

\* the way asked for and a way the service does not have
WayIds == {7, 8}

\* node arguments: none, the nodes of the way, and a node that is not on it
NodeArgs == {0, 1, 2, 3, 4, 9}

\* node sequences of way 7: an open way, a closed one, and one of a single
\* node
WayNodes == { <<1, 2, 3, 4>>, <<1, 2, 3, 1>>, <<3>> }

\* the nodes an answer carries: all of them, or all but node 4
NodeSets == { 1..4, 1..3 }

\* requests.RequestException as raised by requests.post (ConnectionError,
\* Timeout) and by raise_for_status (HTTPError)
RequestFaults == {"ConnectionError", "Timeout", "HTTPError"}

\* the answers of the map service
Responses ==
  {[fault |-> f, ways |-> <<>>, nodes |-> <<>>] : f \in RequestFaults}
    \cup {[fault |-> "", ways |-> (7 :> w),
           nodes |-> [n \in ns |-> ValidPoints[n]]] :
            w \in WayNodes, ns \in NodeSets}

\* a call of _fetch_osm_way_geometry(way_id, start_node, end_node)
FetchOsmWayGeometry(response, way_id, start_node, end_node) ==
  /\ way.op = "idle"
  /\ way' = [NoWay EXCEPT !.op = "fetch", !.response = response,
                          !.way_id = way_id, !.start_node = start_node,
                          !.end_node = end_node,
                          !.fetched = fetch_osm_way_geometry(
                                        response, way_id, start_node, end_node)]
  /\ UNCHANGED <<codecVars, settings, report, db, runs, outcome>>

\* a call of encode_osm_way(way_id, start_node, end_node)
EncodeOsmWay(response, way_id, start_node, end_node) ==
  /\ way.op = "idle"
  /\ way' = [NoWay EXCEPT !.op = "encode_osm_way", !.response = response,
                          !.way_id = way_id, !.start_node = start_node,
                          !.end_node = end_node,
                          !.fetched = IF enabled
                                      THEN fetch_osm_way_geometry(
                                             response, way_id, start_node, end_node)
                                      ELSE NoFetch,
                          !.result = encode_osm_way(enabled, format,
                                       fetch_osm_way_geometry(
                                         response, way_id, start_node, end_node))]
  /\ UNCHANGED <<codecVars, settings, report, db, runs, outcome>>

NextWay ==
  \/ \E response \in Responses : \E way_id \in WayIds :
       \E start_node, end_node \in NodeArgs :
         FetchOsmWayGeometry(response, way_id, start_node, end_node)
  \/ \E response \in Responses : \E way_id \in WayIds :
       \E start_node, end_node \in NodeArgs :
         EncodeOsmWay(response, way_id, start_node, end_node)

SpecWay == Init /\ [][NextWay]_vars

TypeOK ==
  /\ enabled \in BOOLEAN
  /\ format \in OpenLRFormat
  /\ encoded.status \in {"idle", "none", "ok", "raise"}
  /\ decoded.status \in {"idle", "none", "ok", "raise"}
  /\ validated.called \in BOOLEAN

----------------------------------------------------------------------------
(* Properties *)

\* a LineString of 2 to 255 coordinates, each a pair within range
ValidLineString(g) ==
  /\ g.isdict
  /\ g.type = "LineString"
  /\ Len(g.coordinates) >= 2
  /\ Len(g.coordinates) <= MaxByte
  /\ \A i \in 1..Len(g.coordinates) :
       /\ Len(g.coordinates[i]) = 2
       /\ LonInRange(g.coordinates[i][1])
       /\ LatInRange(g.coordinates[i][2])

\* the state after decode_openlr(encode_geometry(geometry)) on a valid geometry
RoundTrip ==
  /\ enabled
  /\ ValidLineString(geometry)
  /\ encoded.status = "ok"
  /\ openlr_code = encoded.value
  /\ decoded.status # "idle"

\* the unsigned integer whose four bytes, most significant first, follow
\* position offset of data
BigEndian(data, offset) ==
  ((data[offset + 1] * 256 + data[offset + 2]) * 256 + data[offset + 3]) * 256
    + data[offset + 4]

\* C1: for every valid LineString g (2 to 255 points, coordinates in range)
\* encode succeeds, decoding the reference succeeds, and the decoded
\* LineString has as many points as g, point i lying in the quantization
\* cell of point i of g.
C1_RoundTripCount ==
  /\ (enabled /\ ValidLineString(geometry) /\ encoded.status # "idle")
       => encoded.status = "ok"
  /\ RoundTrip =>
       /\ decoded.status = "ok"
       /\ Len(decoded.coordinates) = Len(geometry.coordinates)
       /\ \A i \in 1..Len(geometry.coordinates) : \A k \in 1..2 :
            /\ decoded.coordinates[i][k] <= geometry.coordinates[i][k]
            /\ geometry.coordinates[i][k] < decoded.coordinates[i][k] + SubSteps

C1_Witness ==
  /\ RoundTrip
  /\ decoded.status = "ok"
  /\ Len(geometry.coordinates) = MaxByte

\* C2 (as claimed): for a valid LineString the lowercase-hex text of the
\* payload decodes successfully and to the same coordinates as the base64
\* text of that payload.
C2_FormatEquivalence ==
  (/\ enabled
   /\ ValidLineString(geometry)
   /\ encoded.status = "ok"
   /\ openlr_code = Txt(hex(encoded.data))
   /\ decoded.status # "idle")
    => /\ decoded.status = "ok"
       /\ decode_openlr(enabled, Txt(b64encode(encoded.data))).status = "ok"
       /\ decoded.coordinates
            = decode_openlr(enabled, Txt(b64encode(encoded.data))).coordinates

\* C3: after a round trip every longitude and latitude differs from the
\* original by at most one quantization step (SubSteps sub-units).
C3_RoundTripError ==
  (RoundTrip /\ decoded.status = "ok"
     /\ Len(decoded.coordinates) = Len(geometry.coordinates))
    => \A i \in 1..Len(geometry.coordinates) : \A k \in 1..2 :
         Abs(decoded.coordinates[i][k] - geometry.coordinates[i][k]) <= SubSteps

C3_Witness ==
  /\ RoundTrip
  /\ decoded.status = "ok"
  /\ \E i \in 1..Len(geometry.coordinates) :
       decoded.coordinates[i][1] # geometry.coordinates[i][1]

\* C4: the payload of a successful encode of n points is 0x42, n, then n
\* blocks of 8 bytes in input order, each the scaled longitude followed by
\* the scaled latitude as 4-byte big-endian unsigned integers; 2 + 8n bytes.
C4_PayloadLayout ==
  encoded.status = "ok" =>
    LET n == Len(geometry.coordinates)
        data == encoded.data
    IN /\ Len(data) = 2 + 8 * n
       /\ data[1] = MARKER
       /\ data[2] = n
       /\ \A k \in 1..Len(data) : data[k] \in 0..MaxByte
       /\ \A i \in 1..n :
            LET lon == BigEndian(data, 2 + 8 * (i - 1))
                lat == BigEndian(data, 6 + 8 * (i - 1))
            IN /\ lon * SubSteps <= geometry.coordinates[i][1] + LON_OFFSET * Deg
               /\ geometry.coordinates[i][1] + LON_OFFSET * Deg < (lon + 1) * SubSteps
               /\ lat * SubSteps <= geometry.coordinates[i][2] + LAT_OFFSET * Deg
               /\ geometry.coordinates[i][2] + LAT_OFFSET * Deg < (lat + 1) * SubSteps

C4_Witness ==
  /\ encoded.status = "ok"
  /\ Len(geometry.coordinates) = 2
  /\ geometry.coordinates[1] # geometry.coordinates[2]
  /\ geometry.coordinates[1][1] + LON_OFFSET * Deg
       # geometry.coordinates[1][2] + LAT_OFFSET * Deg

\* the nearest integer to num/den, halves going up (num >= 0, den > 0)
RoundHalfUp(num, den) == (2 * num + den) \div (2 * den)

\* C5 (as claimed): each packed value is the scaled coordinate rounded to
\* the nearest integer, a fractional part of one half or more going up.
C5_PackedIsRounded ==
  encoded.status = "ok" =>
    \A i \in 1..Len(geometry.coordinates) :
      /\ BigEndian(encoded.data, 2 + 8 * (i - 1))
           = RoundHalfUp(geometry.coordinates[i][1] + LON_OFFSET * Deg, SubSteps)
      /\ BigEndian(encoded.data, 6 + 8 * (i - 1))
           = RoundHalfUp(geometry.coordinates[i][2] + LAT_OFFSET * Deg, SubSteps)

\* every coordinate of g is a pair within range
CoordinatesInRange(g) ==
  \A i \in 1..Len(g.coordinates) :
    /\ Len(g.coordinates[i]) = 2
    /\ LonInRange(g.coordinates[i][1])
    /\ LatInRange(g.coordinates[i][2])

\* C6: a 2-point LineString encodes; one with 0 or 1 points fails with
\* GeospatialException; one with 256 or more points fails with the
\* OpenLRException of the count that does not fit a byte; a failing encode
\* returns no reference.
C6_PointCountBoundaries ==
  (enabled /\ encoded.status # "idle" /\ geometry.isdict
     /\ geometry.type = "LineString")
    => LET n == Len(geometry.coordinates)
       IN /\ (n = 2 /\ CoordinatesInRange(geometry)) => encoded.status = "ok"
          /\ n < 2 => (encoded.status = "raise" /\ encoded.exc = GeospatialException)
          /\ (n > MaxByte /\ CoordinatesInRange(geometry)) =>
               /\ encoded.status = "raise"
               /\ encoded.exc = OpenLRException
               /\ encoded.msg = "Encoding failed: byte must be in range(0, 256)"
          /\ encoded.status = "raise" => encoded.value = EmptyText

C6_Witness ==
  /\ enabled
  /\ geometry.type = "LineString"
  /\ Len(geometry.coordinates) = MaxByte + 1
  /\ encoded.status = "raise"
  /\ encoded.exc = OpenLRException

\* g has a coordinate pair whose longitude or latitude is out of range
HasOutOfRange(g) ==
  \E i \in 1..Len(g.coordinates) :
    /\ Len(g.coordinates[i]) = 2
    /\ ~(LonInRange(g.coordinates[i][1]) /\ LatInRange(g.coordinates[i][2]))

\* C7: when a coordinate is out of range encode fails with
\* GeospatialException and no byte of the payload has been built, wherever
\* in the LineString the coordinate stands.
C7_RangeFailsBeforePacking ==
  (enabled /\ encoded.status # "idle" /\ geometry.isdict /\ HasOutOfRange(geometry))
    => /\ encoded.status = "raise"
       /\ encoded.exc = GeospatialException
       /\ encoded.data = <<>>
       /\ encoded.value = EmptyText

C7_Witness ==
  /\ enabled
  /\ geometry.type = "LineString"
  /\ Len(geometry.coordinates) = 2
  /\ CoordFault(geometry.coordinates[1]) = ""
  /\ Len(geometry.coordinates[2]) = 2
  /\ ~LatInRange(geometry.coordinates[2][2])
  /\ encoded.status = "raise"
  /\ encoded.data = <<>>

\* C8: encode of anything but a LineString fails with GeospatialException
\* and returns no reference.
C8_OnlyLineString ==
  (enabled /\ encoded.status # "idle"
     /\ (~geometry.isdict \/ geometry.type # "LineString"))
    => /\ encoded.status = "raise"
       /\ encoded.exc = GeospatialException
       /\ encoded.value = EmptyText

C8_Witness ==
  /\ enabled
  /\ geometry.isdict
  /\ geometry.type = "Polygon"
  /\ CoordinatesInRange(geometry)
  /\ encoded.status = "raise"
  /\ encoded.exc = GeospatialException

\* the outcome r of a decoder is the outcome d of decode_openlr
SameOutcome(d, r) ==
  /\ d.status = r.status
  /\ d.status = "ok" => d.coordinates = r.coordinates
  /\ d.status = "raise" => d.exc = OpenLRException
  /\ (d.status = "raise" /\ r.exc = OpenLRException) => d.msg = r.msg

\* decode_openlr took the first decoder whose test the text passes: base64,
\* then hex, then a leading "<"; a text passing none fails as unknown format
DetectionOrder ==
  LET cs == openlr_code.chars
  IN IF is_base64(cs)
     THEN /\ decoded.via = BASE64
          /\ SameOutcome(decoded, decode_simple_encoding(b64decode(cs)))
     ELSE IF is_hex(cs)
     THEN /\ decoded.via = BINARY
          /\ SameOutcome(decoded, decode_simple_encoding(fromhex(cs)))
     ELSE IF cs # <<>> /\ cs[1] = "<"
     THEN /\ decoded.via = XML
          /\ SameOutcome(decoded, decode_from_xml_simple(openlr_code.doc))
     ELSE /\ decoded.status = "raise"
          /\ decoded.exc = OpenLRException
          /\ decoded.msg = "Unknown OpenLR format"

\* C9 (as claimed): for every input text the decoder is chosen in the order
\* base64, hex, "<", and a text matching none fails as unknown format.
C9_DetectionOrderAnyInput ==
  (enabled /\ decoded.status # "idle") => DetectionOrder

\* C9 (amended): the same for every non-empty input text; the empty text is
\* answered with no geometry before any format is tested.
C9_DetectionOrder ==
  /\ (enabled /\ decoded.status # "idle" /\ openlr_code.chars # <<>>)
       => DetectionOrder
  /\ (decoded.status # "idle" /\ openlr_code.chars = <<>>)
       => decoded.status = "none"

C9_Witness ==
  /\ enabled
  /\ encoded.status = "ok"
  /\ openlr_code = Txt(hex(encoded.data))
  /\ is_base64(openlr_code.chars)
  /\ is_hex(openlr_code.chars)
  /\ decoded.via = BASE64
  /\ decoded.status = "raise"

\* C10: validate_openlr_code never raises, and answers true exactly when
\* decode_openlr of the same text returns a geometry.
C10_ValidateCode ==
  validated.called =>
    /\ ~validated.raised
    /\ validated.result = (decode_openlr(enabled, openlr_code).status = "ok")

C10_Witness ==
  /\ validated.called
  /\ ~validated.result
  /\ decode_openlr(enabled, openlr_code).status = "raise"
  /\ decode_openlr(enabled, openlr_code).msg = "Invalid data length"

\* the report of a test_encoding_roundtrip call that decoded its reference
Scored == report.op = "test_encoding_roundtrip" /\ report.decoded_geometry # None

\* C11 (as claimed): test_encoding_roundtrip sets valid by an inclusive
\* comparison: valid is true when accuracy_meters equals the tolerance or is
\* smaller, and false when it is strictly greater.
C11_InclusiveTolerance ==
  Scored =>
    report.valid = LessEq(report.accuracy_meters,
                          settings.OPENLR_ACCURACY_TOLERANCE)

\* C12: for every valid LineString and every tolerance of at least one
\* metre, test_encoding_roundtrip encodes the geometry, decodes the
\* reference, scores the decoded geometry against the original and reports
\* accuracy_meters below one metre and valid = true.
C12_RoundtripAccurate ==
  (/\ report.op = "test_encoding_roundtrip"
   /\ enabled
   /\ ValidLineString(geometry)
   /\ settings.OPENLR_ACCURACY_TOLERANCE >= Metres(1))
    => /\ report.success
       /\ report.error = ""
       /\ report.openlr_code = encode_geometry(enabled, format, geometry).value
       /\ report.decoded_geometry
            = DecodedGeometry(decode_openlr(enabled, report.openlr_code))
       /\ report.decoded_geometry # None
       /\ report.accuracy_meters
            = calculate_geometry_accuracy(geometry, report.decoded_geometry)
       /\ Less(report.accuracy_meters, Metres(1))
       /\ report.valid

C12_Witness ==
  /\ Scored
  /\ enabled
  /\ ValidLineString(geometry)
  /\ settings.OPENLR_ACCURACY_TOLERANCE = Metres(1)
  /\ report.accuracy_meters.total > 0
  /\ report.valid

\* C13 (as claimed): when the two coordinate lists scored have different
\* point counts the accuracy is infinite and the result invalid, both in
\* OpenLRService._calculate_geometry_accuracy and in
\* ClosureService._validate_openlr_code, which reports valid = false when
\* the decoded reference has another number of points than the geometry.
C13_CountMismatchInvalid ==
  /\ (/\ report.op = "_calculate_geometry_accuracy"
      /\ geometry # None /\ report.decoded_geometry # None
      /\ Len(geometry.coordinates) # Len(report.decoded_geometry.coordinates))
       => report.accuracy_meters = Inf
  /\ (/\ report.op = "_validate_openlr_code"
      /\ report.decoded_geometry # None
      /\ Len(geometry.coordinates) # Len(report.decoded_geometry.coordinates))
       => /\ ~report.valid
          /\ report.accuracy_meters = Inf

\* the text of a payload in the format named
TextForm(fmt, data, coordinates) ==
  IF fmt = BASE64 THEN Txt(b64encode(data))
  ELSE IF fmt = BINARY THEN Txt(hex(data))
  ELSE encode_to_xml_simple(coordinates)

\* C20 (as claimed): the reference encode_geometry returns is written in the
\* format the configuration selects: base64 of the payload for base64,
\* lowercase hexadecimal for hex, the XML document for xml.
C20_ConfiguredFormat ==
  encoded.status = "ok" =>
    encoded.value
      = TextForm(settings.OPENLR_FORMAT, encoded.data, geometry.coordinates)

\* the reference the codec gives for g under the present settings, the
\* empty text when the encode fails or returns nothing
CodecReference(g) ==
  LET e == encode_geometry(enabled, format, g)
  IN IF e.status = "ok" THEN e.value ELSE EmptyText

C15_UpdateReplacesReference ==
  (outcome.op = "update_closure" /\ outcome.geometry # None)
    => /\ ~outcome.raised =>
            /\ db[outcome.id].geometry = outcome.geometry
            /\ db[outcome.id].openlr_code = CodecReference(outcome.geometry)
       /\ (outcome.raised /\ closure_validate_geometry(outcome.geometry) = "")
            => outcome.msg \in {"Closure not found",
                                "You don't have permission to edit this closure",
                                "Failed to update closure"}

C15_Witness ==
  /\ outcome.op = "update_closure"
  /\ ~outcome.raised
  /\ enabled
  /\ outcome.geometry.type = "Point"
  /\ db[outcome.id].geometry = outcome.geometry
  /\ db[outcome.id].openlr_code = EmptyText
  /\ \E i \in 1..Len(db) : i # outcome.id /\ db[i].openlr_code # EmptyText

\* the reference the closure with geometry g held before any batch
InitialCode(g) == (CHOOSE row \in BatchRows : row.geometry = g).openlr_code

\* the closures a batch with this force flag has to process
Selected(force) ==
  {i \in 1..Len(db) : force \/ InitialCode(db[i].geometry) = EmptyText}

\* the ids a run took from its query
Taken(run) == {run.closures[k] : k \in 1..Len(run.closures)}

\* C16: whatever the failures of single closures (no geometry, encode
\* failure, exception), regenerate_openlr_codes passes over every selected
\* closure, and its report has total_processed = number of selected
\* closures = successful + failed and one entry of errors per failed one.
C16_BatchCounts ==
  runs[1].results.counted =>
    /\ runs[1].results.total_processed = Cardinality(Selected(runs[1].force))
    /\ runs[1].results.successful + runs[1].results.failed = runs[1].done
    /\ Len(runs[1].results.errors) = runs[1].results.failed
    /\ runs[1].pc = "done" =>
         /\ runs[1].done = runs[1].results.total_processed
         /\ runs[1].results.successful + runs[1].results.failed
              = runs[1].results.total_processed
         /\ \A i \in Selected(runs[1].force) :
              \/ i \in DOMAIN runs[1].pending
              \/ \E k \in 1..Len(runs[1].results.errors) :
                   runs[1].results.errors[k].closure = i

C16_Witness ==
  /\ runs[1].pc = "done"
  /\ runs[1].results.total_processed = MaxClosures
  /\ runs[1].results.successful = 1
  /\ \E k \in 1..Len(runs[1].results.errors) :
       runs[1].results.errors[k].msg
         \in {"No geometry available", "query failed",
              "Only LineString geometries are supported"}

C18_FailedCommit ==
  (/\ runs[1].pc = "done"
   /\ runs[1].results.counted
   /\ runs[1].results.error # "")
    => /\ runs[1].results.error = "Failed to commit changes"
       /\ runs[1].results.successful = Cardinality(DOMAIN runs[1].pending)
       /\ runs[1].results.successful + runs[1].results.failed
            = runs[1].results.total_processed
       /\ Len(runs[1].results.errors) = runs[1].results.failed
       /\ \A i \in 1..Len(db) :
            db[i].openlr_code = InitialCode(db[i].geometry)

C18_Witness ==
  /\ runs[1].pc = "done"
  /\ runs[1].results.error = "Failed to commit changes"
  /\ runs[1].results.successful > 0
  /\ \E i \in DOMAIN runs[1].pending :
       /\ runs[1].pending[i] # InitialCode(db[i].geometry)
       /\ db[i].openlr_code = InitialCode(db[i].geometry)

\* the reference of a closure with geometry g after one batch whose loop
\* and commit succeed
SingleRun(g, force) ==
  IF (force \/ InitialCode(g) = EmptyText) /\ CodecReference(g) # EmptyText
  THEN CodecReference(g)
  ELSE InitialCode(g)

\* the run is over and nothing but the encode itself failed in it
Clean(run) ==
  /\ run.pc = "done"
  /\ run.results.error \in {"", "OpenLR is disabled"}
  /\ \A k \in 1..Len(run.results.errors) :
       run.results.errors[k].msg # "query failed"

\* C19: two runs of regenerate_openlr_codes on the same store, their
\* queries, encodes and commits interleaved in any order, leave every
\* closure with the reference a single run leaves it with: at any moment
\* what it had or the encoding of its geometry, and after two runs without
\* outside failures exactly what one run with their force flags gives.
C19_ConcurrentIdempotent ==
  \A i \in 1..Len(db) :
    /\ db[i].openlr_code \in {InitialCode(db[i].geometry),
                               SingleRun(db[i].geometry, TRUE)}
    /\ (Clean(runs[1]) /\ Clean(runs[2]))
         => db[i].openlr_code
              = SingleRun(db[i].geometry, runs[1].force \/ runs[2].force)

C19_Witness ==
  /\ Clean(runs[1]) /\ Clean(runs[2])
  /\ ~runs[1].force /\ ~runs[2].force
  /\ \E i \in DOMAIN runs[1].pending \cap DOMAIN runs[2].pending :
       /\ InitialCode(db[i].geometry) = EmptyText
       /\ db[i].openlr_code = CodecReference(db[i].geometry)
       /\ db[i].openlr_code # EmptyText

----------------------------------------------------------------------------
(* The way geometry *)

\* the positions i <= j of the way at which start_node and end_node stand
Ranges(node_ids, start_node, end_node) ==
  {ij \in (1..Len(node_ids)) \X (1..Len(node_ids)) :
     /\ ij[1] <= ij[2]
     /\ node_ids[ij[1]] = start_node
     /\ node_ids[ij[2]] = end_node}

\* C21: a fetch with both nodes supplied that returns a geometry returns the
\* nodes from start_node to end_node when both are on the way (end_node not
\* before start_node), and the whole way when either is not on it.
C21_NodeRange ==
  (/\ way.op = "fetch" /\ way.fetched.status = "ok"
   /\ way.start_node # 0 /\ way.end_node # 0) =>
    LET node_ids == way.response.ways[way.way_id]
        nodes == way.response.nodes
        got == way.fetched.geometry.coordinates
    IN IF Has(node_ids, way.start_node) /\ Has(node_ids, way.end_node)
       THEN Ranges(node_ids, way.start_node, way.end_node) # {} =>
              \E ij \in Ranges(node_ids, way.start_node, way.end_node) :
                got = node_coordinates(nodes, SubSeq(node_ids, ij[1], ij[2]))
       ELSE got = node_coordinates(nodes, node_ids)

\* C22: a fetch whose request failed raises ExternalServiceException, a fetch
\* that put together fewer than 2 coordinates raises OpenLRException, and a
\* geometry that a fetch returns has at least 2 points.
C22_FailureKinds ==
  way.op = "fetch" =>
    /\ way.response.fault # "" =>
         /\ way.fetched.status = "raise"
         /\ way.fetched.exc = ExternalServiceException
    /\ way.fetched.msg = "Insufficient coordinates for way" =>
         /\ way.fetched.status = "raise"
         /\ way.fetched.exc = OpenLRException
    /\ way.fetched.status = "ok" =>
         Len(way.fetched.geometry.coordinates) >= 2

----------------------------------------------------------------------------
(* Failures of direct calls *)

\* C23: a direct call that fails raises a typed exception: what
\* encode_geometry raises is a GeospatialException or an OpenLRException, and
\* test_encoding_roundtrip never returns a dictionary that reports an error.
C23_DirectFailuresPropagate ==
  /\ encoded.status = "raise" =>
       encoded.exc \in {GeospatialException, OpenLRException}
  /\ report.op = "test_encoding_roundtrip" => "error" \notin report.keys

----------------------------------------------------------------------------
(* Who may edit a closure *)

\* the closure a call of update_closure or delete_closure was made on, as the
\* call found it
Before == outcome.call.rows[outcome.call.closure_id]

\* the user of the call is the submitter of the closure or a moderator
Entitled ==
  outcome.call.user.is_moderator \/ Before.submitter_id = outcome.call.user.id

\* C24: a call of update_closure or delete_closure on an existing closure by a
\* user who is neither its submitter nor a moderator raises ValidationException
\* and leaves the table as it was; a call that changed the table was made by
\* the submitter or a moderator and returned.
C24_OnlyOwnerOrModerator ==
  (/\ outcome.op \in {"update_closure", "delete_closure"}
   /\ outcome.call.closure_id \in Present(outcome.call.rows)) =>
    /\ ~Entitled => /\ outcome.raised
                    /\ outcome.exc = ValidationException
                    /\ db = outcome.call.rows
    /\ db # outcome.call.rows => (Entitled /\ ~outcome.raised)

C24_Witness ==
  /\ outcome.op = "delete_closure"
  /\ outcome.call.closure_id \in Present(outcome.call.rows)
  /\ ~outcome.call.user.is_moderator
  /\ Before.submitter_id # outcome.call.user.id
  /\ outcome.raised
  /\ outcome.msg = "You don't have permission to delete this closure"
  /\ db = outcome.call.rows
  /\ Before.openlr_code # EmptyText

\* C25: an update_closure that a user who is not a moderator made and that
\* returned leaves the closure with the status the time-based transition
\* gives to the status it had, whatever status the request carried.
C25_StatusModeratorOnly ==
  (/\ outcome.op = "update_closure"
   /\ ~outcome.raised
   /\ ~outcome.call.user.is_moderator) =>
    db[outcome.id].status
      = update_status_if_needed(Before, outcome.call.clock).status

----------------------------------------------------------------------------
(* Binary decode *)

\* decode_openlr was called on a text that goes to the binary decoder
BinaryDecoded ==
  /\ enabled
  /\ decoded.status # "idle"
  /\ openlr_code.chars # <<>>
  /\ is_base64(openlr_code.chars) \/ is_hex(openlr_code.chars)

\* the payload the binary decoder was given
Payload ==
  IF is_base64(openlr_code.chars) THEN b64decode(openlr_code.chars)
  ELSE fromhex(openlr_code.chars)

\* decode failed with the message msg
Rejected(msg) ==
  /\ decoded.status = "raise"
  /\ decoded.exc = OpenLRException
  /\ decoded.msg = msg

\* decode returned one coordinate per 8-byte block of data, in payload order
Unpacked(data) ==
  /\ decoded.status = "ok"
  /\ Len(decoded.coordinates) = data[2]
  /\ \A i \in 1..data[2] :
       /\ decoded.coordinates[i][1]
            = (BigEndian(data, 2 + 8 * (i - 1)) - 180 * 1000000) * SubSteps
       /\ decoded.coordinates[i][2]
            = (BigEndian(data, 6 + 8 * (i - 1)) - 90 * 1000000) * SubSteps

\* C26 (as claimed): a payload whose first byte is not 0x42 is rejected as
\* invalid format, otherwise one whose length is not 2 + 8 * count as length
\* mismatch, otherwise count coordinates come back in payload order.
C26_MarkerThenLengthAnyPayload ==
  BinaryDecoded =>
    IF Payload = <<>> \/ Payload[1] # MARKER
    THEN Rejected("Invalid encoding format")
    ELSE IF Len(Payload) < 2 \/ Len(Payload) # 2 + 8 * Payload[2]
    THEN Rejected("Invalid data length")
    ELSE Unpacked(Payload)

\* C26 (amended): the same for a payload of at least 2 bytes; a payload of
\* fewer than 2 bytes is rejected as too short before the marker is looked
\* at.
C26_MarkerThenLength ==
  BinaryDecoded =>
    IF Len(Payload) < 2
    THEN Rejected("Binary data too short")
    ELSE IF Payload[1] # MARKER
    THEN Rejected("Invalid encoding format")
    ELSE IF Len(Payload) # 2 + 8 * Payload[2]
    THEN Rejected("Invalid data length")
    ELSE Unpacked(Payload)

C26_Witness ==
  /\ BinaryDecoded
  /\ Len(Payload) >= 2
  /\ Payload[1] # MARKER
  /\ Len(Payload) # 2 + 8 * Payload[2]
  /\ Rejected("Invalid encoding format")

\* the XML form of the coordinates of the geometry just encoded
XmlForm == encode_to_xml_simple(geometry.coordinates)

\* C27: the XML form has one Point element per coordinate of the input, in
\* the order of the input, each with the zero-based index as its id and the
\* texts of the coordinate's longitude and latitude; decoding the form goes
\* through the XML decoder and returns as many coordinates, in the same
\* order, with the same longitude and latitude
C27_XmlFormRoundTrip ==
  encoded.status = "ok" =>
    /\ Len(XmlForm.doc.points) = Len(geometry.coordinates)
    /\ \A i \in 1..Len(geometry.coordinates) :
         /\ XmlForm.doc.points[i].id = i - 1
         /\ XmlForm.doc.points[i].lon.text = str_float(geometry.coordinates[i][1])
         /\ XmlForm.doc.points[i].lat.text = str_float(geometry.coordinates[i][2])
    /\ (decoded.status # "idle" /\ openlr_code = XmlForm) =>
         /\ decoded.status = "ok"
         /\ decoded.via = XML
         /\ Len(decoded.coordinates) = Len(geometry.coordinates)
         /\ \A i \in 1..Len(geometry.coordinates) :
              /\ decoded.coordinates[i][1] = geometry.coordinates[i][1]
              /\ decoded.coordinates[i][2] = geometry.coordinates[i][2]

\* the XML form of a line with a coordinate between two steps of the binary
\* grid, written in exponent notation, has been decoded
C27_Witness ==
  /\ encoded.status = "ok"
  /\ openlr_code = XmlForm
  /\ decoded.status = "ok"
  /\ Len(geometry.coordinates) >= 2
  /\ \E i \in 1..Len(geometry.coordinates) :
       /\ geometry.coordinates[i][1] % SubSteps # 0
       /\ XmlForm.doc.points[i].lon.text.sci

\* C28 (as claimed): whatever the interleaving of create_closure,
\* update_closure and regenerate_openlr_codes, each in its own session, the
\* reference of every closure in the committed table is NULL or the
\* reference of the geometry the closure holds now; a batch that read the
\* geometry before an update committed leaves no reference of the old
\* geometry on the closure.
C28_ReferenceOfStoredGeometry ==
  \A i \in Present(db) :
    db[i].openlr_code \in {EmptyText, ReferenceOf(db[i].geometry)}

\* C29 (as claimed): whatever the text, a geometry decode_openlr returns is
\* a LineString of at least two coordinates, each with a longitude between
\* -180 and 180 and a latitude between -90 and 90, so that the geometry
\* validation would accept it.
C29_DecodedIsValidGeometry ==
  decoded.status = "ok" =>
    validate_geometry(Geom("LineString", decoded.coordinates)) = ""

\* the scaled longitudes and latitudes of the geometry of the call
ScaledValues ==
  {lon_scaled(geometry.coordinates[i][1]) : i \in 1..Len(geometry.coordinates)}
    \cup {lat_scaled(geometry.coordinates[i][2]) : i \in 1..Len(geometry.coordinates)}

\* C30: for every coordinate of a geometry that passes the validation, the
\* scaled longitude lies between 0 and 360000000 and the scaled latitude
\* between 0 and 180000000, both below 2^32: the four bytes packed for the
\* value, read back as an unsigned number, are the value itself (the
\* reduction mod 2^32 changes nothing and nothing overflows), they are the
\* bytes of the payload, and two different scaled values never have the same
\* bytes.
C30_ScaledInRange ==
  (encoded.status # "idle" /\ validate_geometry(geometry) = "") =>
    /\ \A i \in 1..Len(geometry.coordinates) :
         LET lon == lon_scaled(geometry.coordinates[i][1])
             lat == lat_scaled(geometry.coordinates[i][2])
         IN /\ 0 <= lon /\ lon <= 2 * LON_OFFSET * SCALE
            /\ 0 <= lat /\ lat <= 2 * LAT_OFFSET * SCALE
            /\ Pack32(lon)[1] <= MaxByte \div 2
            /\ Pack32(lat)[1] <= MaxByte \div 2
            /\ Unpack32(Pack32(lon), 0) = lon
            /\ Unpack32(Pack32(lat), 0) = lat
            /\ encoded.status = "ok" =>
                 /\ SubSeq(encoded.data, 8 * i - 5, 8 * i - 2) = Pack32(lon)
                 /\ SubSeq(encoded.data, 8 * i - 1, 8 * i + 2) = Pack32(lat)
    /\ \A u, v \in ScaledValues : u # v => Pack32(u) # Pack32(v)

\* a line through the corner (180, 90) and another coordinate has been
\* encoded: the scaled values reach 360000000 and 180000000
C30_Witness ==
  /\ encoded.status = "ok"
  /\ validate_geometry(geometry) = ""
  /\ \E i, j \in 1..Len(geometry.coordinates) :
       /\ lon_scaled(geometry.coordinates[i][1]) = 2 * LON_OFFSET * SCALE
       /\ lat_scaled(geometry.coordinates[i][2]) = 2 * LAT_OFFSET * SCALE
       /\ lon_scaled(geometry.coordinates[j][1]) # lon_scaled(geometry.coordinates[i][1])

====
